---- MODULE Spec2Model ----
(***************************************************************************)
(* DispatchBot notification pipeline: the NotificationQueue collection     *)
(* (src/src/queues/notifyQueue.ts), its background dispatch loop, and the  *)
(* periodic queue tick of DispatchBot (src/src/index.ts).                  *)
(*                                                                         *)
(* Every datastore call (find, findOne, updateOne, updateMany, insertOne)  *)
(* is one atomic step; an async method that awaits several of them is      *)
(* several steps, and other tasks may run between them.  Times are in      *)
(* milliseconds, as in the source.                                         *)
(***************************************************************************)
EXTENDS Integers, Sequences, FiniteSets, Bags, TLC

(* ---- bounds of the model ---- *)
MaxItems == 2
MaxTime == 1000
MaxTasks == 2
MaxFailCalls == 1
MaxRuns == 1
MaxRetryCount == 5
MaxDeficit == 1
MaxHooks == 2
MaxHandlers == 2
MaxEmits == 1
MaxOverlap == 2
MaxChanges == 1

(* ---- program constants ---- *)
DefaultMaxConcurrent == 5
DefaultMaxRetries == 3
DefaultBatchSize == 10
ProcessInterval == 1000
FallbackRetryDelay == 60000
CapDelay == 300000
BaseReceiptDelay == 60000
StaleThreshold == 30000

RetryDelays == <<1000, 5000, 15000, 60000>>

Priorities == {"low", "medium", "high", "urgent"}
Statuses == {"pending", "processing", "sent", "failed", "cancelled"}
Types == {"sms", "email"}

\* scheduledTime absent from the document
NoTime == -1
\* scheduledTime: undefined written by $set, stored as null
NullTime == -2
\* metadata.rideRequestUuid absent from the document
NoRide == 0
Rides == {1, 2}
\* metadata.twilioMessageSid absent from the document
NoSid == 0
Sids == {1, 2}
\* a field the document does not have
Unset == "unset"
\* the scheduledTime values addPickupReminder is called for
ReminderTimes == {ProcessInterval}
\* no call returned in the last step
NoResult == [op |-> "none", arg |-> 0, val |-> 0]

VARIABLES
  queue,            \* the notificationQueue collection, in insertion order
  now,              \* Date.now()
  config,           \* NotificationQueue.config
  isProcessing,     \* NotificationQueue.isProcessing
  processingCount,  \* NotificationQueue.processingCount
  loops,            \* startProcessing loops alive: position, batch, timer
  tasks,            \* processNotification calls in progress
  failCalls,        \* markNotificationFailed calls between findOne and updateOne
  runs,             \* DispatchBot.processNotificationQueue runs alive
  rideCancelled,    \* history: the items that existed when a completed
                    \* cancelRideNotifications call covered their ride
  hooks,            \* TwilioStatusHandler.handleStatusUpdate calls in progress
  returned,         \* the call the last step made or completed: its name,
                    \* argument and result (addNotification, cancelNotification,
                    \* cancelRideNotifications), or the change a watcher handled
  eventHandlers,    \* RideEventManager.eventHandlers: the handlers of each kind
  emits,            \* publishing calls of RideEventManager in progress
  published,        \* the publishing call the last step completed
  riderequests,     \* the riderequests collection: the document of each uuid
  changes           \* change events whose callback awaits its findOne

vars == <<queue, now, config, isProcessing, processingCount, loops, tasks,
          failCalls, runs, rideCancelled, hooks, returned,
          eventHandlers, emits, published, riderequests, changes>>

\* the riderequests collection and the change streams on it
watchVars == <<riderequests, changes>>

\* the state of the event side: RideEventManager and the change watchers
busVars == <<eventHandlers, emits, published, watchVars>>

Ids == 1..Len(queue)

Min(a, b) == IF a < b THEN a ELSE b

Range(s) == {s[k] : k \in 1..Len(s)}

\* $set of status, retryCount and scheduledTime, $push to metadata.errors
SetFields(i, st, rc, sched) ==
  [queue EXCEPT ![i] = [@ EXCEPT !.status = st, !.retryCount = rc,
                                  !.scheduledTime = sched,
                                  !.errors = @ + 1]]

\* the $set with the priority of the statusUpdate wrapper written as well
SetStatusAndPriority(i, st) ==
  [queue EXCEPT ![i].status = st, ![i].priority = "medium"]

\* $set of status (and updatedAt)
SetStatus(i, st) == [queue EXCEPT ![i].status = st]

(* ---- the collection ---- *)

\* BSON compares the priority strings byte-wise: "high" < "low" < "medium" < "urgent"
PriorityKey(p) ==
  CASE p = "high" -> 1
    [] p = "low" -> 2
    [] p = "medium" -> 3
    [] p = "urgent" -> 4

\* the sort with the priority key ascending
SortsBeforeAscending(a, b) ==
  \/ PriorityKey(queue[a].priority) < PriorityKey(queue[b].priority)
  \/ /\ PriorityKey(queue[a].priority) = PriorityKey(queue[b].priority)
     /\ queue[a].createdAt < queue[b].createdAt

\* .sort({ priority: -1, createdAt: 1 }): a sorts strictly before b
SortsBefore(a, b) ==
  \/ PriorityKey(queue[a].priority) > PriorityKey(queue[b].priority)
  \/ /\ PriorityKey(queue[a].priority) = PriorityKey(queue[b].priority)
     /\ queue[a].createdAt < queue[b].createdAt

\* the find filter of getPendingNotifications
\* the filter without its $or clause on scheduledTime
IsEligibleIgnoringSchedule(i) ==
  queue[i].status = "pending"

IsEligible(i) ==
  /\ queue[i].status = "pending"
  /\ \/ queue[i].scheduledTime = NoTime
     \/ /\ queue[i].scheduledTime >= 0
        /\ queue[i].scheduledTime <= now

\* find(S).sort(...).limit(limit).toArray(): every order the sort allows
\* (documents equal in both sort keys come in an order the store chooses)
FindSorted(S, limit) ==
  LET n == Min(limit, Cardinality(S)) IN
  {s \in [1..n -> S] :
     /\ \A a, b \in 1..n : a < b => s[a] # s[b] /\ ~SortsBefore(s[b], s[a])
     /\ \A x \in S \ Range(s) : \A a \in 1..n : ~SortsBefore(x, s[a])}

getPendingNotifications(limit) ==
  FindSorted({i \in Ids : IsEligible(i)}, limit)

\* the find of getProcessingNotifications matching no document
getProcessingNotificationsNone(limit) == {<<>>}

getProcessingNotifications(limit) ==
  FindSorted({i \in Ids : queue[i].status = "processing"}, limit)

\* retryDelays[retryCount] || 60000
RetryDelay(rc) ==
  IF rc + 1 <= Len(config.retryDelays) /\ config.retryDelays[rc + 1] # 0
    THEN config.retryDelays[rc + 1]
    ELSE FallbackRetryDelay

\* the updateOne of markNotificationFailed, from the retryCount its findOne read
FailedUpdate(i, rc) ==
  LET shouldRetry == rc < config.maxRetries IN
  SetFields(i, IF shouldRetry THEN "pending" ELSE "failed", rc + 1,
            IF shouldRetry THEN now + RetryDelay(rc) ELSE NullTime)

(* ---- NotificationQueue operations ---- *)

\* startProcessing() up to its first await: the new loop's first position
LoopEntry ==
  IF processingCount < config.maxConcurrent
    THEN [pc |-> "fetch", batch |-> <<>>, wakeAt |-> 0]
    ELSE [pc |-> "sleep", batch |-> <<>>, wakeAt |-> now + config.processInterval]

\* the object a caller passes to addNotification; status and retryCount are
\* not part of its declared type and are absent unless the caller adds them
Fields(type, priority, scheduledTime, maxRetries, ride, sid) ==
  [type |-> type, priority |-> priority, scheduledTime |-> scheduledTime,
   maxRetries |-> maxRetries, ride |-> ride, sid |-> sid,
   status |-> Unset, retryCount |-> 0]

\* the object literal with the caller's fields spread last
NewNotificationSpreadLast(n) ==
  [status |-> n.status, retryCount |-> n.retryCount,
   type |-> n.type, priority |-> n.priority,
   scheduledTime |-> n.scheduledTime, maxRetries |-> n.maxRetries,
   ride |-> n.ride, sid |-> n.sid, createdAt |-> now,
   errors |-> 0, retryHistory |-> 0, lastTwilioStatus |-> Unset]

\* { ...notification, id, retryCount: 0, status: 'pending', createdAt, updatedAt }
NewNotification(n) ==
  [status |-> "pending", retryCount |-> 0,
   type |-> n.type, priority |-> n.priority,
   scheduledTime |-> n.scheduledTime, maxRetries |-> n.maxRetries,
   ride |-> n.ride, sid |-> n.sid, createdAt |-> now,
   errors |-> 0, retryHistory |-> 0, lastTwilioStatus |-> Unset]

\* addNotification as it acts on the queue, whoever calls it
addNotificationCall(n) ==
  /\ Len(queue) < MaxItems
  /\ queue' = Append(queue, NewNotification(n))
  /\ IF ~isProcessing
       THEN /\ isProcessing' = TRUE
            /\ loops' = loops (+) SetToBag({LoopEntry})
       ELSE UNCHANGED <<isProcessing, loops>>
  /\ returned' = [op |-> "addNotification", arg |-> 0, val |-> Len(queue) + 1]
  /\ UNCHANGED <<now, config, processingCount, tasks, failCalls, runs,
                 rideCancelled, hooks>>

addNotification(n) == addNotificationCall(n) /\ UNCHANGED busVars

addSMSNotification ==
  \E p \in Priorities :
    addNotification(Fields("sms", p, NoTime, config.maxRetries, NoRide, NoSid))

addRideUpdateNotification ==
  \E p \in Priorities, r \in Rides :
    addNotification(Fields("sms", p, NoTime, config.maxRetries, r, NoSid))

addEmergencyNotification ==
  addNotification(Fields("sms", "urgent", NoTime, config.maxRetries, NoRide, NoSid))

addDelayNotification ==
  \E r \in Rides :
    addNotification(Fields("sms", "high", NoTime, config.maxRetries, r, NoSid))

addStatusUpdateNotification ==
  \E r \in Rides :
    addNotification(Fields("sms", "medium", NoTime, config.maxRetries, r, NoSid))

\* scheduledTime = pickupTime - 15 minutes, for the pickup times of the caller
addPickupReminder ==
  \E t \in ReminderTimes :
    addNotification(Fields("sms", "medium", t, config.maxRetries, 1, NoSid))

\* addNotification called directly: any maxRetries, and an object that also
\* carries status and retryCount
addNotificationDirect ==
  \E st \in Statuses \cup {Unset}, rc \in {0, 1}, mr \in {1, config.maxRetries} :
    addNotification([Fields("sms", "medium", NoTime, mr, NoRide, NoSid)
                       EXCEPT !.status = st, !.retryCount = rc])

\* addSMSNotification with metadata that carries the provider reference of
\* the message (metadata.twilioMessageSid); a reference names one message
addSMSNotificationTracked ==
  \E sid \in Sids :
    /\ \A i \in Ids : queue[i].sid # sid
    /\ addNotification(Fields("sms", "medium", NoTime, config.maxRetries, NoRide, sid))

\* addSMSNotification with a priority of the caller's choice and metadata
\* that names a ride and may carry a provider reference (one message each)
addSMSNotificationWithMetadata ==
  \E p \in {"low", "urgent"}, r \in {1}, sid \in Sids \cup {NoSid} :
    /\ sid # NoSid => \A i \in Ids : queue[i].sid # sid
    /\ addNotification(Fields("sms", p, NoTime, config.maxRetries, r, sid))

markNotificationSent(i) ==
  /\ queue' = SetStatus(i, "sent")
  /\ UNCHANGED <<now, config, isProcessing, processingCount, loops, tasks,
                 failCalls, runs, rideCancelled, hooks, busVars>>
  /\ returned' = NoResult

\* markNotificationFailed: the findOne
markNotificationFailedRead(i) ==
  /\ BagCardinality(failCalls) < MaxFailCalls
  /\ queue[i].retryCount < MaxRetryCount
  /\ failCalls' = failCalls (+) SetToBag({[id |-> i, rc |-> queue[i].retryCount]})
  /\ UNCHANGED <<queue, now, config, isProcessing, processingCount, loops,
                 tasks, runs, rideCancelled, hooks, busVars>>
  /\ returned' = NoResult

\* markNotificationFailed: the updateOne
markNotificationFailedWrite(c) ==
  /\ queue' = FailedUpdate(c.id, c.rc)
  /\ failCalls' = failCalls (-) SetToBag({c})
  /\ UNCHANGED <<now, config, isProcessing, processingCount, loops, tasks, runs, rideCancelled, hooks, busVars>>
  /\ returned' = NoResult

\* result.modifiedCount of an updateOne whose filter matched item i: the
\* document is modified when a field changes; updatedAt changes unless the
\* previous write fell in the same millisecond
ModifiedCounts(i, st) == IF queue[i].status # st THEN {1} ELSE {0, 1}

cancelNotification(i) ==
  /\ queue' = SetStatus(i, "cancelled")
  /\ \E m \in ModifiedCounts(i, "cancelled") :
       returned' = [op |-> "cancelNotification", arg |-> i, val |-> m]
  /\ UNCHANGED <<now, config, isProcessing, processingCount, loops, tasks,
                 failCalls, runs, rideCancelled, hooks, busVars>>

\* the filter with status: 'pending' in place of the $in
RideMatchesPendingOnly(r) ==
  {i \in Ids : queue[i].ride = r /\ queue[i].status = "pending"}

\* the documents the filter of cancelRideNotifications matches
RideMatches(r) ==
  {i \in Ids : queue[i].ride = r /\ queue[i].status \in {"pending", "processing"}}

\* cancelRideNotifications as it acts on the queue, whoever calls it
cancelRideNotificationsCall(r) ==
  /\ queue' = [i \in Ids |->
                 IF i \in RideMatches(r)
                   THEN [queue[i] EXCEPT !.status = "cancelled"]
                   ELSE queue[i]]
  /\ returned' = [op |-> "cancelRideNotifications", arg |-> r,
                  val |-> Cardinality(RideMatches(r))]
  /\ rideCancelled' = rideCancelled \cup {i \in Ids : queue[i].ride = r}
  /\ UNCHANGED <<now, config, isProcessing, processingCount, loops, tasks,
                 failCalls, runs, hooks>>

cancelRideNotifications(r) == cancelRideNotificationsCall(r) /\ UNCHANGED busVars

\* the $group stage of the aggregate: one result for each status present
GroupByStatus ==
  {[id |-> st, count |-> Cardinality({i \in Ids : queue[i].status = st})] :
     st \in {queue[i].status : i \in Ids}}

RECURSIVE SumCounts(_)
\* stats.total += result.count over the results
SumCounts(results) ==
  IF results = {} THEN 0
  ELSE LET r == CHOOSE x \in results : TRUE
       IN r.count + SumCounts(results \ {r})

\* the keys of the stats object literal
StatsKeys == {"pending", "processing", "sent", "failed", "total"}

\* the forEach adding to total only the counts of the keys of the literal
StatsOfDeclaredKeys(results) ==
  [k \in StatsKeys \cup {r.id : r \in results} |->
     IF k = "total" THEN SumCounts({r \in results : r.id \in StatsKeys})
     ELSE IF \E r \in results : r.id = k
       THEN (CHOOSE r \in results : r.id = k).count
       ELSE 0]

\* the stats object after results.forEach: stats[result._id] = result.count
\* and stats.total += result.count; a status outside the literal adds a key
StatsOf(results) ==
  [k \in StatsKeys \cup {r.id : r \in results} |->
     IF k = "total" THEN SumCounts(results)
     ELSE IF \E r \in results : r.id = k
       THEN (CHOOSE r \in results : r.id = k).count
       ELSE 0]

\* the object of the catch block
ZeroStats == [k \in StatsKeys |-> 0]

\* getQueueStats: the aggregate executes, or fails (arg 1) and the catch
\* block answers
getQueueStats ==
  /\ \E failed \in BOOLEAN :
       returned' = [op |-> "getQueueStats", arg |-> IF failed THEN 1 ELSE 0,
                    val |-> IF failed THEN ZeroStats ELSE StatsOf(GroupByStatus)]
  /\ UNCHANGED <<queue, now, config, isProcessing, processingCount, loops,
                 tasks, failCalls, runs, rideCancelled, hooks, busVars>>

(* ---- the background loop of NotificationQueue ---- *)

Replace(bag, old, new) == (bag (-) SetToBag({old})) (+) SetToBag({new})

\* while (this.isProcessing): the check and the issue of getPendingNotifications
\* run without an await between them; the find itself executes here
startProcessingFetch(l) ==
  /\ l.pc = "fetch"
  /\ \E b \in getPendingNotifications(config.batchSize) :
       loops' = Replace(loops, l, [l EXCEPT !.pc = "spawn", !.batch = b])
  /\ UNCHANGED <<queue, now, config, isProcessing, processingCount, tasks,
                 failCalls, runs, rideCancelled, hooks, busVars>>
  /\ returned' = NoResult

\* how many notifications of the batch the for loop starts before its break
Started(batch) ==
  IF processingCount >= config.maxConcurrent THEN 0
  ELSE Min(Len(batch), config.maxConcurrent - processingCount)

\* the for loop: each processNotification(n) runs synchronously up to its
\* await (processingCount++ and the updateOne of the claim issued), then
\* the loop arms its timer
startProcessingSpawn(l) ==
  LET k == Started(l.batch)
      new == [j \in 1..k |-> [id |-> l.batch[j], pc |-> "claim", ok |-> FALSE]]
  IN
  /\ l.pc = "spawn"
  /\ BagCardinality(tasks) + k <= MaxTasks
  /\ tasks' = tasks (+) [t \in Range(new) |-> Cardinality({j \in 1..k : new[j] = t})]
  /\ processingCount' = processingCount + k
  /\ loops' = Replace(loops, l, [pc |-> "sleep", batch |-> <<>>,
                                 wakeAt |-> now + config.processInterval])
  /\ UNCHANGED <<queue, now, config, isProcessing, failCalls, runs, rideCancelled, hooks, busVars>>
  /\ returned' = NoResult

\* the timer fires: the while condition and the concurrency check again
startProcessingWake(l) ==
  /\ l.pc = "sleep"
  /\ now >= l.wakeAt
  /\ loops' = IF isProcessing THEN Replace(loops, l, LoopEntry)
              ELSE loops (-) SetToBag({l})
  /\ UNCHANGED <<queue, now, config, isProcessing, processingCount, tasks,
                 failCalls, runs, rideCancelled, hooks, busVars>>
  /\ returned' = NoResult

stopProcessing ==
  /\ isProcessing' = FALSE
  /\ UNCHANGED <<queue, now, config, processingCount, loops, tasks, failCalls, runs, rideCancelled, hooks, busVars>>
  /\ returned' = NoResult

\* the claim with the filter { id } alone
markNotificationProcessingAnyStatus(i) == SetStatus(i, "processing")

\* updateOne({ id, status: 'pending' }, { $set: { status: 'processing' } })
markNotificationProcessing(i) ==
  IF queue[i].status = "pending" THEN SetStatus(i, "processing") ELSE queue

\* result.modifiedCount > 0
ClaimResult(i) == queue[i].status = "pending"

\* markNotificationProcessing called on its own
markNotificationProcessingCall(i) ==
  /\ queue' = markNotificationProcessing(i)
  /\ UNCHANGED <<now, config, isProcessing, processingCount, loops, tasks,
                 failCalls, runs, rideCancelled, hooks, busVars>>
  /\ returned' = NoResult

\* processNotification: the claim executes at the store
processNotificationClaim(t) ==
  /\ t.pc = "claim"
  /\ queue' = markNotificationProcessing(t.id)
  /\ tasks' = Replace(tasks, t, [t EXCEPT !.pc = "resume", !.ok = ClaimResult(t.id)])
  /\ UNCHANGED <<now, config, isProcessing, processingCount, loops, failCalls, runs, rideCancelled, hooks, busVars>>
  /\ returned' = NoResult

\* processNotification after the await: a failed claim decrements and
\* returns inside the try, and the finally block decrements once more
processNotificationResume(t) ==
  LET dec == IF t.ok THEN 1 ELSE 2 IN
  /\ t.pc = "resume"
  /\ processingCount - dec >= -MaxDeficit
  /\ processingCount' = processingCount - dec
  /\ tasks' = tasks (-) SetToBag({t})
  /\ UNCHANGED <<queue, now, config, isProcessing, loops, failCalls, runs, rideCancelled, hooks, busVars>>
  /\ returned' = NoResult

(* ---- the periodic queue tick of DispatchBot ---- *)

\* cron.schedule('*/10 * * * * *', ...) fires while fewer than alive runs
\* are in progress: the callback starts a run; getPendingNotifications executes
cronTick(alive) ==
  /\ BagCardinality(runs) < alive
  /\ \E b \in getPendingNotifications(config.batchSize) :
       runs' = runs (+) SetToBag({[pc |-> "fetchProcessing", batch |-> b, rc |-> 0]})
  /\ UNCHANGED <<queue, now, config, isProcessing, processingCount, loops,
                 tasks, failCalls, rideCancelled, hooks, busVars>>
  /\ returned' = NoResult

\* a tick that fires when the run before it has ended
processNotificationQueueStart == cronTick(MaxRuns)

\* getProcessingNotifications executes; allNotifications is built
processNotificationQueueFetch(r) ==
  /\ r.pc = "fetchProcessing"
  /\ \E b \in getProcessingNotifications(config.batchSize) :
       runs' = Replace(runs, r, [r EXCEPT !.pc = "next", !.batch = r.batch \o b])
  /\ UNCHANGED <<queue, now, config, isProcessing, processingCount, loops,
                 tasks, failCalls, rideCancelled, hooks, busVars>>
  /\ returned' = NoResult

\* one iteration of the for loop up to its first await
processNotificationQueueNext(r) ==
  /\ r.pc = "next"
  /\ \/ /\ r.batch = <<>>
        /\ runs' = runs (-) SetToBag({r})
     \/ /\ r.batch # <<>>
        /\ now - queue[Head(r.batch)].createdAt > StaleThreshold
        /\ runs' = Replace(runs, r, [r EXCEPT !.pc = "failRead"])
     \/ /\ r.batch # <<>>
        /\ now - queue[Head(r.batch)].createdAt <= StaleThreshold
        /\ queue[Head(r.batch)].type = "sms"
        /\ runs' = Replace(runs, r, [r EXCEPT !.pc = "sending"])
     \/ /\ r.batch # <<>>
        /\ now - queue[Head(r.batch)].createdAt <= StaleThreshold
        /\ queue[Head(r.batch)].type # "sms"
        /\ runs' = Replace(runs, r, [r EXCEPT !.batch = Tail(r.batch)])
  /\ UNCHANGED <<queue, now, config, isProcessing, processingCount, loops,
                 tasks, failCalls, rideCancelled, hooks, busVars>>
  /\ returned' = NoResult

\* twilioSender.sendSMS answers
processNotificationQueueSendDone(r) ==
  /\ r.pc = "sending"
  /\ \E success \in BOOLEAN :
       runs' = Replace(runs, r,
                 [r EXCEPT !.pc = IF success THEN "markSent" ELSE "failRead"])
  /\ UNCHANGED <<queue, now, config, isProcessing, processingCount, loops,
                 tasks, failCalls, rideCancelled, hooks, busVars>>
  /\ returned' = NoResult

processNotificationQueueMarkSent(r) ==
  /\ r.pc = "markSent"
  /\ queue' = SetStatus(Head(r.batch), "sent")
  /\ runs' = Replace(runs, r, [r EXCEPT !.pc = "next", !.batch = Tail(r.batch)])
  /\ UNCHANGED <<now, config, isProcessing, processingCount, loops, tasks, failCalls, rideCancelled, hooks, busVars>>
  /\ returned' = NoResult

\* markNotificationFailed called by the run: the findOne
processNotificationQueueFailRead(r) ==
  /\ r.pc = "failRead"
  /\ queue[Head(r.batch)].retryCount < MaxRetryCount
  /\ runs' = Replace(runs, r, [r EXCEPT !.pc = "failWrite",
                                        !.rc = queue[Head(r.batch)].retryCount])
  /\ UNCHANGED <<queue, now, config, isProcessing, processingCount, loops,
                 tasks, failCalls, rideCancelled, hooks, busVars>>
  /\ returned' = NoResult

\* markNotificationFailed called by the run: the updateOne
processNotificationQueueFailWrite(r) ==
  /\ r.pc = "failWrite"
  /\ queue' = FailedUpdate(Head(r.batch), r.rc)
  /\ runs' = Replace(runs, r, [r EXCEPT !.pc = "next", !.batch = Tail(r.batch),
                                        !.rc = 0])
  /\ UNCHANGED <<now, config, isProcessing, processingCount, loops, tasks, failCalls, rideCancelled, hooks, busVars>>
  /\ returned' = NoResult

(* ---- datastore failures in the loop and in the tick ---- *)

\* the run after a failure that reaches the catch block of
\* processNotificationQueue: the rest of the batch is dropped
AfterFailureAborts(r) == [r EXCEPT !.pc = "next", !.batch = <<>>, !.rc = 0]

\* the run after a mark* call that caught a datastore error and returned
\* false: the for loop goes on to the next notification
AfterFailure(r) == [r EXCEPT !.pc = "next", !.batch = Tail(r.batch), !.rc = 0]

\* getPendingNotifications catches a datastore error and returns []
startProcessingFetchFails(l) ==
  /\ l.pc = "fetch"
  /\ loops' = Replace(loops, l, [l EXCEPT !.pc = "spawn", !.batch = <<>>])
  /\ UNCHANGED <<queue, now, config, isProcessing, processingCount, tasks,
                 failCalls, runs, rideCancelled, hooks, busVars>>
  /\ returned' = NoResult

\* markNotificationProcessing catches a datastore error and returns false
processNotificationClaimFails(t) ==
  /\ t.pc = "claim"
  /\ tasks' = Replace(tasks, t, [t EXCEPT !.pc = "resume", !.ok = FALSE])
  /\ UNCHANGED <<queue, now, config, isProcessing, processingCount, loops,
                 failCalls, runs, rideCancelled, hooks, busVars>>
  /\ returned' = NoResult

\* the cron callback starts a run whose getPendingNotifications returns []
\* after a datastore error
processNotificationQueueStartFails ==
  /\ BagCardinality(runs) < MaxRuns
  /\ runs' = runs (+) SetToBag({[pc |-> "fetchProcessing", batch |-> <<>>,
                                 rc |-> 0]})
  /\ UNCHANGED <<queue, now, config, isProcessing, processingCount, loops,
                 tasks, failCalls, rideCancelled, hooks, busVars>>
  /\ returned' = NoResult

\* getProcessingNotifications returns [] after a datastore error
processNotificationQueueFetchFails(r) ==
  /\ r.pc = "fetchProcessing"
  /\ runs' = Replace(runs, r, [r EXCEPT !.pc = "next"])
  /\ UNCHANGED <<queue, now, config, isProcessing, processingCount, loops,
                 tasks, failCalls, rideCancelled, hooks, busVars>>
  /\ returned' = NoResult

\* markNotificationSent, or the findOne or the updateOne of
\* markNotificationFailed, meets a datastore error
processNotificationQueueMarkFails(r) ==
  /\ r.pc \in {"markSent", "failRead", "failWrite"}
  /\ runs' = Replace(runs, r, AfterFailure(r))
  /\ UNCHANGED <<queue, now, config, isProcessing, processingCount, loops,
                 tasks, failCalls, rideCancelled, hooks, busVars>>
  /\ returned' = NoResult

LoopFaults ==
  \/ \E l \in BagToSet(loops) : startProcessingFetchFails(l)
  \/ \E t \in BagToSet(tasks) : processNotificationClaimFails(t)

TickFaults ==
  \/ processNotificationQueueStartFails
  \/ \E r \in BagToSet(runs) : processNotificationQueueFetchFails(r)
  \/ \E r \in BagToSet(runs) : processNotificationQueueMarkFails(r)

(* ---- RideEventManager: the event bus ---- *)

\* the values of RideEventType
EventKinds ==
  {"REQUEST_CREATED", "REQUEST_CONFIRMED", "REQUEST_CANCELED", "DRIVER_ASSIGNED",
   "VEHICLE_ASSIGNED", "RIDE_STARTED", "RIDE_INTERRUPTED", "RIDER_PICKED_UP",
   "RIDER_NOT_PICKED_UP", "RIDER_DROPPED_OFF", "RIDER_NOT_DROPPED_OFF",
   "ROUNDTRIP_RETURNING", "ROUNDTRIP_RETURN_INTERRUPTED", "ROUNDTRIP_COMPLETE",
   "ROUNDTRIP_COMPLETION_INTERRUPTED", "RIDE_COMPLETE", "RIDE_INCOMPLETE",
   "EMERGENCY_ALERT"}

\* no event kind: the switch of a translator took a branch that publishes nothing
NoKind == "none"

\* event.driverUuid absent, 0 or NaN: every value that if (event.driverUuid) rejects
NoDriver == 0
Drivers == {1}

\* the ride documents the watchers resolve: one with a driver, one without;
\* the queue stores uuid.toString() in metadata.rideRequestUuid, and Rides
\* stands for both
RideDocuments ==
  {[uuid |-> 1, serviceUserUuid |-> 11, assignedDriverUuid |-> 1],
   [uuid |-> 2, serviceUserUuid |-> 12, assignedDriverUuid |-> NoDriver]}

\* handlers a caller of on() passes: one that returns, one that throws before
\* its first await, one whose promise rejects
PlainHandlers == {"returns", "throws", "rejects"}

\* the kinds the callers of on() and of the publishing methods use here
SubscribedKinds == {"RIDER_PICKED_UP", "REQUEST_CANCELED"}

\* the kinds DispatchBot.setupEventHandlers registers a handler for; each
\* handler is named by its kind
HandledKinds ==
  {"REQUEST_CREATED", "REQUEST_CONFIRMED", "DRIVER_ASSIGNED", "VEHICLE_ASSIGNED",
   "RIDE_STARTED", "RIDER_PICKED_UP", "RIDER_DROPPED_OFF", "ROUNDTRIP_RETURNING",
   "ROUNDTRIP_COMPLETE", "RIDE_COMPLETE", "REQUEST_CANCELED", "EMERGENCY_ALERT"}

\* eventHandlers after initializeEventHandlers()
NoHandlers == [k \in EventKinds |-> <<>>]

\* eventHandlers after DispatchBot.setupEventHandlers()
setupEventHandlers ==
  [k \in EventKinds |-> IF k \in HandledKinds THEN <<k>> ELSE <<>>]

\* the event object a publishing method builds
NewEvent(kind, ride, user, driver) ==
  [eventType |-> kind, rideRequestUuid |-> ride, serviceUserUuid |-> user,
   driverUuid |-> driver]

\* a publishing method up to its await of storeEvent
NewEmit(event) ==
  [pc |-> "store", event |-> event, pos |-> 0, ops |-> <<>>, trace |-> <<>>,
   added |-> {}, error |-> FALSE]

NoPublish ==
  [event |-> NewEvent(NoKind, NoRide, 0, NoDriver), trace |-> <<>>,
   added |-> {}, error |-> FALSE]

\* one awaited queue call of a DispatchBot handler
Op(call, priority) == [call |-> call, priority |-> priority]

\* the handlers with the one of REQUEST_CANCELED enqueueing its notice first
HandlerOpsNoticeFirst(h, event) ==
  CASE h = "REQUEST_CREATED" -> <<Op("addRideUpdateNotification", "medium")>>
    [] h \in {"REQUEST_CONFIRMED", "RIDE_STARTED", "RIDER_PICKED_UP",
              "RIDER_DROPPED_OFF", "ROUNDTRIP_COMPLETE", "RIDE_COMPLETE"} ->
         <<Op("addStatusUpdateNotification", "medium")>>
    [] h = "DRIVER_ASSIGNED" ->
         <<Op("addStatusUpdateNotification", "medium")>> \o
         (IF event.driverUuid # NoDriver
            THEN <<Op("addDriverNotification", "high")>> ELSE <<>>)
    [] h = "VEHICLE_ASSIGNED" ->
         IF event.driverUuid # NoDriver
           THEN <<Op("addDriverNotification", "medium")>> ELSE <<>>
    [] h = "ROUNDTRIP_RETURNING" -> <<Op("addRoundtripNotification", "medium")>>
    [] h = "REQUEST_CANCELED" ->
         <<Op("addStatusUpdateNotification", "medium"),
           Op("cancelRideNotifications", "medium")>>
    [] h = "EMERGENCY_ALERT" ->
         <<Op("addEmergencyNotification", "urgent"),
           Op("getUserPreferences", "urgent")>>
    [] OTHER -> <<>>

\* the awaited calls of the handler DispatchBot registers for a kind, in
\* order; a handler passed to on() directly awaits nothing
HandlerOps(h, event) ==
  CASE h = "REQUEST_CREATED" -> <<Op("addRideUpdateNotification", "medium")>>
    [] h \in {"REQUEST_CONFIRMED", "RIDE_STARTED", "RIDER_PICKED_UP",
              "RIDER_DROPPED_OFF", "ROUNDTRIP_COMPLETE", "RIDE_COMPLETE"} ->
         <<Op("addStatusUpdateNotification", "medium")>>
    [] h = "DRIVER_ASSIGNED" ->
         <<Op("addStatusUpdateNotification", "medium")>> \o
         (IF event.driverUuid # NoDriver
            THEN <<Op("addDriverNotification", "high")>> ELSE <<>>)
    [] h = "VEHICLE_ASSIGNED" ->
         IF event.driverUuid # NoDriver
           THEN <<Op("addDriverNotification", "medium")>> ELSE <<>>
    [] h = "ROUNDTRIP_RETURNING" -> <<Op("addRoundtripNotification", "medium")>>
    [] h = "REQUEST_CANCELED" ->
         <<Op("cancelRideNotifications", "medium"),
           Op("addStatusUpdateNotification", "medium")>>
    [] h = "EMERGENCY_ALERT" ->
         <<Op("addEmergencyNotification", "urgent"),
           Op("getUserPreferences", "urgent")>>
    [] OTHER -> <<>>

\* the object the wrapper called by a handler passes to addNotification
OpFields(op, event) ==
  Fields("sms", op.priority, NoTime, config.maxRetries,
         IF op.call = "addEmergencyNotification" THEN NoRide
         ELSE event.rideRequestUuid, NoSid)

\* this.eventHandlers.get(eventType) || [] with the lists of every kind
RegisteredAnyKind(kind) ==
  eventHandlers["RIDER_PICKED_UP"] \o eventHandlers["REQUEST_CANCELED"]

\* this.eventHandlers.get(eventType) || []
Registered(kind) == eventHandlers[kind]

\* a handler's error leaves emit
HandlerEndUncaught(e, outcome) ==
  [e EXCEPT !.trace = Append(@, [handler |-> e.trace[Len(e.trace)].handler,
                                 phase |-> outcome]),
            !.error = outcome # "returned"]

\* the handler that runs has ended; the catch block of emit logs an error
HandlerEnd(e, outcome) ==
  [e EXCEPT !.trace = Append(@, [handler |-> e.trace[Len(e.trace)].handler,
                                 phase |-> outcome])]

RECURSIVE emit(_)
\* the for loop of emit from position e.pos on, up to the await of a handler
\* that is pending or to the end of the list; an error that was not caught
\* ends the loop
emit(e) ==
  LET handlers == Registered(e.event.eventType) IN
  IF e.error \/ e.pos >= Len(handlers)
    THEN [e EXCEPT !.pc = "done"]
    ELSE LET h == handlers[e.pos + 1]
             started == [e EXCEPT !.pos = @ + 1,
                                  !.trace = Append(@, [handler |-> h,
                                                       phase |-> "start"])]
         IN IF h = "throws"
              THEN emit(HandlerEnd(started, "thrown"))
              ELSE [started EXCEPT !.pc = "handler",
                                   !.ops = HandlerOps(h, e.event)]

\* the publishing call e continues as e2, or has completed
Continue(e, e2) ==
  IF e2.pc = "done"
    THEN /\ emits' = emits (-) SetToBag({e})
         /\ published' = [event |-> e2.event, trace |-> e2.trace,
                          added |-> e2.added, error |-> e2.error]
    ELSE /\ emits' = Replace(emits, e, e2)
         /\ published' = NoPublish

queueVars == <<queue, now, config, isProcessing, processingCount, loops, tasks,
               failCalls, runs, rideCancelled, hooks>>

on(kind, h) ==
  /\ Len(eventHandlers[kind]) < MaxHandlers
  /\ eventHandlers' = [eventHandlers EXCEPT ![kind] = Append(@, h)]
  /\ published' = NoPublish
  /\ returned' = NoResult
  /\ UNCHANGED <<queueVars, emits, watchVars>>

\* a publishing method (requestConfirmed, riderPickedUp, ...) is called
publish(event) ==
  /\ BagCardinality(emits) < MaxEmits
  /\ emits' = emits (+) SetToBag({NewEmit(event)})
  /\ published' = NoPublish

\* riderPickedUp and requestCanceled called by a user of the manager
publishCall ==
  \E k \in SubscribedKinds, r \in Rides :
    /\ publish(NewEvent(k, r, 11, NoDriver))
    /\ returned' = NoResult
    /\ UNCHANGED <<queueVars, eventHandlers, watchVars>>

\* the insertOne of storeEvent into the rideEvents collection executes, or
\* fails and is logged; either way emit starts
storeEvent(e) ==
  /\ e.pc = "store"
  /\ Continue(e, emit(e))
  /\ returned' = NoResult
  /\ UNCHANGED <<queueVars, eventHandlers, watchVars>>

\* the promise of the handler that runs settles
handlerSettles(e) ==
  /\ e.pc = "handler"
  /\ e.ops = <<>>
  /\ Continue(e, emit(HandlerEnd(e,
       IF e.trace[Len(e.trace)].handler = "rejects" THEN "rejected"
       ELSE "returned")))
  /\ returned' = NoResult
  /\ UNCHANGED <<queueVars, eventHandlers, watchVars>>

\* the queue call the handler awaits executes
handlerCalls(e) ==
  LET op == Head(e.ops) IN
  /\ e.pc = "handler"
  /\ e.ops # <<>>
  /\ \/ /\ op.call = "cancelRideNotifications"
        /\ cancelRideNotificationsCall(e.event.rideRequestUuid)
        /\ emits' = Replace(emits, e, [e EXCEPT !.ops = Tail(@)])
        /\ published' = NoPublish
        /\ UNCHANGED <<eventHandlers, watchVars>>
     \/ /\ op.call = "getUserPreferences"
        /\ \/ /\ addNotificationCall(OpFields(Op("addEmergencyNotification",
                                                 "urgent"), e.event))
              /\ emits' = Replace(emits, e,
                            [e EXCEPT !.ops = Tail(@),
                                      !.added = @ \cup {Len(queue) + 1}])
           \/ /\ emits' = Replace(emits, e, [e EXCEPT !.ops = Tail(@)])
              /\ returned' = NoResult
              /\ UNCHANGED queueVars
        /\ published' = NoPublish
        /\ UNCHANGED <<eventHandlers, watchVars>>
     \/ /\ op.call \notin {"cancelRideNotifications", "getUserPreferences"}
        /\ addNotificationCall(OpFields(op, e.event))
        /\ emits' = Replace(emits, e,
                      [e EXCEPT !.ops = Tail(@),
                                !.added = @ \cup {Len(queue) + 1}])
        /\ published' = NoPublish
        /\ UNCHANGED <<eventHandlers, watchVars>>

\* the datastore fails the call the handler awaits: cancelRideNotifications
\* returns 0, addNotification rethrows and the handler's promise rejects
\* (getUserPreferences returns null, the branch of handlerCalls that adds nothing)
handlerCallFails(e) ==
  /\ e.pc = "handler"
  /\ e.ops # <<>>
  /\ Head(e.ops).call # "getUserPreferences"
  /\ IF Head(e.ops).call = "cancelRideNotifications"
       THEN /\ emits' = Replace(emits, e, [e EXCEPT !.ops = Tail(@)])
            /\ published' = NoPublish
       ELSE Continue(e, emit(HandlerEnd([e EXCEPT !.ops = <<>>], "rejected")))
  /\ returned' = NoResult
  /\ UNCHANGED <<queueVars, eventHandlers, watchVars>>

Emit ==
  \/ \E e \in BagToSet(emits) : storeEvent(e)
  \/ \E e \in BagToSet(emits) : handlerSettles(e)
  \/ \E e \in BagToSet(emits) : handlerCalls(e)
  \/ \E e \in BagToSet(emits) : handlerCallFails(e)

(* ---- DispatchBot: the change watchers and the status translators ---- *)

\* the rideStatus values an update carries: those of RideStatus and one other
RideStatusCodes ==
  {0, 100, 109, 200, 209, 300, 309, 400, 409, 450, 459, 475, 479, 500, 509, 250}

\* the rideRequestStatus values an update carries: those of
\* RideRequestStatus and one other
RideRequestStatusCodes ==
  {100, 109, 200, 209, 300, 309, 400, 409, 500, 525, 599, 600, 625, 699, 700,
   725, 799, 1000, 1100, 150}

\* the switch with the cases of 300 and 400 exchanged
RideStatusKindExchanged(code) ==
  CASE code = 100 -> "REQUEST_CONFIRMED"
    [] code = 109 -> "REQUEST_CANCELED"
    [] code = 200 -> "RIDE_STARTED"
    [] code = 209 -> "RIDE_INTERRUPTED"
    [] code = 300 -> "RIDER_DROPPED_OFF"
    [] code = 309 -> "RIDER_NOT_PICKED_UP"
    [] code = 400 -> "RIDER_PICKED_UP"
    [] code = 409 -> "RIDER_NOT_DROPPED_OFF"
    [] code = 450 -> "ROUNDTRIP_RETURNING"
    [] code = 459 -> "ROUNDTRIP_RETURN_INTERRUPTED"
    [] code = 475 -> "ROUNDTRIP_COMPLETE"
    [] code = 479 -> "ROUNDTRIP_COMPLETION_INTERRUPTED"
    [] code = 500 -> "RIDE_COMPLETE"
    [] code = 509 -> "RIDE_INCOMPLETE"
    [] OTHER -> NoKind

\* the switch of handleAutomaticRideStatusChange: the kind of the publishing
\* method the case of a code calls; the default branch only logs
RideStatusKind(code) ==
  CASE code = 100 -> "REQUEST_CONFIRMED"
    [] code = 109 -> "REQUEST_CANCELED"
    [] code = 200 -> "RIDE_STARTED"
    [] code = 209 -> "RIDE_INTERRUPTED"
    [] code = 300 -> "RIDER_PICKED_UP"
    [] code = 309 -> "RIDER_NOT_PICKED_UP"
    [] code = 400 -> "RIDER_DROPPED_OFF"
    [] code = 409 -> "RIDER_NOT_DROPPED_OFF"
    [] code = 450 -> "ROUNDTRIP_RETURNING"
    [] code = 459 -> "ROUNDTRIP_RETURN_INTERRUPTED"
    [] code = 475 -> "ROUNDTRIP_COMPLETE"
    [] code = 479 -> "ROUNDTRIP_COMPLETION_INTERRUPTED"
    [] code = 500 -> "RIDE_COMPLETE"
    [] code = 509 -> "RIDE_INCOMPLETE"
    [] OTHER -> NoKind

\* the switch with the case of 1100 cancelling the request as well
RideRequestStatusKindClosedCancels(code) ==
  IF code \in {109, 409, 599, 699, 799, 1100} THEN "REQUEST_CANCELED" ELSE NoKind

\* the switch of handleAutomaticRideRequestStatusChange: five codes cancel the
\* request, the other cases and the default branch only log
RideRequestStatusKind(code) ==
  IF code \in {109, 409, 599, 699, 799} THEN "REQUEST_CANCELED" ELSE NoKind

\* the publishing methods that take the ride's assignedDriverUuid
PassesDriver(kind) ==
  kind \in {"RIDE_STARTED", "RIDER_PICKED_UP", "RIDER_DROPPED_OFF",
            "ROUNDTRIP_RETURNING", "ROUNDTRIP_COMPLETE", "RIDE_COMPLETE"}

\* a watcher's callback for a change it resolved to the ride document doc:
\* the publishing method of kind is called, or none
DetectedCall(field, value, doc, kind, driver) ==
  /\ returned' = [op |-> field, arg |-> value, val |-> doc.uuid]
  /\ IF kind # NoKind
       THEN publish(NewEvent(kind, doc.uuid, doc.serviceUserUuid, driver))
       ELSE UNCHANGED emits /\ published' = NoPublish
  /\ UNCHANGED <<queueVars, eventHandlers>>

Detected(field, value, doc, kind, driver) ==
  DetectedCall(field, value, doc, kind, driver) /\ UNCHANGED watchVars

\* the callback of watchRideRequestChanges and handleAutomaticRideStatusChange
\* up to the await of storeEvent
handleAutomaticRideStatusChange(doc, newStatus) ==
  LET kind == RideStatusKind(newStatus) IN
  Detected("rideStatus", newStatus, doc, kind,
           IF PassesDriver(kind) THEN doc.assignedDriverUuid ELSE NoDriver)

\* the callback of watchRideRequestStatusChanges and
\* handleAutomaticRideRequestStatusChange up to the await of storeEvent
handleAutomaticRideRequestStatusChange(doc, newStatus) ==
  Detected("rideRequestStatus", newStatus, doc,
           RideRequestStatusKind(newStatus), NoDriver)

\* the callback of watchNewRideRequests
watchNewRideRequests(doc) ==
  Detected("insert", 0, doc, "REQUEST_CREATED", NoDriver)

\* the callback of watchAssignmentChanges for an update of one of the two
\* fields; a value that is not truthy publishes nothing
watchAssignmentChanges(doc, field, value) ==
  Detected(field, value, doc,
           IF value = 0 THEN NoKind
           ELSE IF field = "assignedDriverUuid" THEN "DRIVER_ASSIGNED"
           ELSE "VEHICLE_ASSIGNED",
           IF field = "assignedDriverUuid" THEN value ELSE NoDriver)

\* findOne({ uuid }) returned null
NoDocument == [uuid |-> 0, serviceUserUuid |-> 0, assignedDriverUuid |-> NoDriver]

\* the riderequests collection when DispatchBot starts
InitialRides == [u \in Rides |-> CHOOSE d \in RideDocuments : d.uuid = u]

\* the user a ride is handed over to by the ride request application
OtherUser == 13

\* change.documentKey.uuid: the uuid where the collection is sharded on uuid;
\* undefined elsewhere, where documentKey holds _id alone
NoKey == 0
DocumentKeys(u) == {u, NoKey}

\* the document of the change event itself, as it was when the update was made
ReadFromChange(c) == c.doc

\* collection.findOne({ uuid: rideUuid }) executes: the document the
\* collection holds now, or null
findOne(c) ==
  IF c.key \in DOMAIN riderequests THEN riderequests[c.key] ELSE NoDocument

\* the ride request application updates rideStatus or rideRequestStatus of
\* a document; the change stream delivers the update and the callback runs
\* up to the await of its findOne
statusUpdated(field, u, value, key) ==
  /\ riderequests[u] # NoDocument
  /\ BagCardinality(changes) < MaxChanges
  /\ changes' = changes (+) SetToBag({[field |-> field, value |-> value,
                                       key |-> key, doc |-> riderequests[u]]})
  /\ published' = NoPublish
  /\ returned' = NoResult
  /\ UNCHANGED <<queueVars, eventHandlers, emits, riderequests>>

\* the ride request application hands the ride over to another user
userChanged(u) ==
  /\ riderequests[u] # NoDocument
  /\ riderequests' = [riderequests EXCEPT ![u].serviceUserUuid = OtherUser]
  /\ published' = NoPublish
  /\ returned' = NoResult
  /\ UNCHANGED <<queueVars, eventHandlers, emits, changes>>

\* the ride request application deletes the document
rideDeleted(u) ==
  /\ riderequests[u] # NoDocument
  /\ riderequests' = [riderequests EXCEPT ![u] = NoDocument]
  /\ published' = NoPublish
  /\ returned' = NoResult
  /\ UNCHANGED <<queueVars, eventHandlers, emits, changes>>

\* the callback of a status watcher after its findOne: if (rideRequest) the
\* translator of the watcher's field runs on the document that was read
watchStatusChanges(c) ==
  LET rideRequest == findOne(c)
      kind == IF c.field = "rideStatus" THEN RideStatusKind(c.value)
              ELSE RideRequestStatusKind(c.value)
  IN
  /\ changes' = changes (-) SetToBag({c})
  /\ UNCHANGED riderequests
  /\ IF rideRequest # NoDocument
       THEN DetectedCall(c.field, c.value, rideRequest, kind,
              IF c.field = "rideStatus" /\ PassesDriver(kind)
                THEN rideRequest.assignedDriverUuid ELSE NoDriver)
       ELSE /\ returned' = NoResult
            /\ published' = NoPublish
            /\ UNCHANGED <<queueVars, eventHandlers, emits>>

\* watchRideRequestChanges and watchRideRequestStatusChanges with the
\* application that writes the collection
RereadWatchers ==
  \/ \E u \in Rides, v \in {100, 300, 250} : \E k \in DocumentKeys(u) :
       statusUpdated("rideStatus", u, v, k)
  \/ \E u \in Rides, v \in {109, 200} : \E k \in DocumentKeys(u) :
       statusUpdated("rideRequestStatus", u, v, k)
  \/ \E u \in Rides : userChanged(u)
  \/ \E u \in Rides : rideDeleted(u)
  \/ \E c \in BagToSet(changes) : watchStatusChanges(c)

\* the two status watchers
StatusWatchers ==
  \/ \E doc \in RideDocuments, c \in RideStatusCodes :
       handleAutomaticRideStatusChange(doc, c)
  \/ \E doc \in RideDocuments, c \in RideRequestStatusCodes :
       handleAutomaticRideRequestStatusChange(doc, c)

\* the watchers of new rides and of assignments
AssignmentWatchers ==
  \/ \E doc \in RideDocuments : watchNewRideRequests(doc)
  \/ \E doc \in RideDocuments,
        f \in {"assignedDriverUuid", "assignedVehicleUuid"},
        v \in Drivers \cup {0} :
       watchAssignmentChanges(doc, f, v)

(* ---- time ---- *)

TimeSteps == {ProcessInterval, StaleThreshold + ProcessInterval}

Advance(d) ==
  /\ now < MaxTime
  /\ now' = now + d
  /\ UNCHANGED <<queue, config, isProcessing, processingCount, loops, tasks,
                 failCalls, runs, rideCancelled, hooks, busVars>>
  /\ returned' = NoResult

\* the pending items whose scheduledTime lies in the future
Waiting == {i \in Ids : queue[i].status = "pending" /\ queue[i].scheduledTime > now}

\* time passes until the earliest scheduledTime of a waiting item
TimerDue ==
  /\ Waiting # {}
  /\ \E i \in Waiting :
       /\ \A j \in Waiting : queue[i].scheduledTime <= queue[j].scheduledTime
       /\ now' = queue[i].scheduledTime
  /\ UNCHANGED <<queue, config, isProcessing, processingCount, loops, tasks,
                 failCalls, runs, rideCancelled, hooks, busVars>>
  /\ returned' = NoResult

(* ---- specifications ---- *)

\* new NotificationQueue(db, config): the defaults, overridden by the caller
Configs ==
  {[maxConcurrent |-> mc, maxRetries |-> mr, batchSize |-> DefaultBatchSize,
    processInterval |-> ProcessInterval, retryDelays |-> rd] :
      mc \in {1, 2, DefaultMaxConcurrent}, mr \in {2, DefaultMaxRetries},
      rd \in {RetryDelays, <<2 * CapDelay>>}}

\* new NotificationQueue(db, config)
InitQueue ==
  /\ queue = <<>>
  /\ now = 0
  /\ config \in Configs
  /\ isProcessing = FALSE
  /\ processingCount = 0
  /\ loops = EmptyBag
  /\ tasks = EmptyBag
  /\ failCalls = EmptyBag
  /\ runs = EmptyBag
  /\ rideCancelled = {}
  /\ hooks = EmptyBag
  /\ returned = NoResult

\* the queue and a new RideEventManager
Init ==
  /\ InitQueue
  /\ eventHandlers = NoHandlers
  /\ emits = EmptyBag
  /\ published = NoPublish
  /\ riderequests = InitialRides
  /\ changes = EmptyBag

Clock == \E d \in TimeSteps : Advance(d)

Loop ==
  \/ \E l \in BagToSet(loops) : startProcessingFetch(l)
  \/ \E l \in BagToSet(loops) : startProcessingSpawn(l)
  \/ \E l \in BagToSet(loops) : startProcessingWake(l)
  \/ \E t \in BagToSet(tasks) : processNotificationClaim(t)
  \/ \E t \in BagToSet(tasks) : processNotificationResume(t)

Tick ==
  \/ processNotificationQueueStart
  \/ \E r \in BagToSet(runs) : processNotificationQueueFetch(r)
  \/ \E r \in BagToSet(runs) : processNotificationQueueNext(r)
  \/ \E r \in BagToSet(runs) : processNotificationQueueSendDone(r)
  \/ \E r \in BagToSet(runs) : processNotificationQueueMarkSent(r)
  \/ \E r \in BagToSet(runs) : processNotificationQueueFailRead(r)
  \/ \E r \in BagToSet(runs) : processNotificationQueueFailWrite(r)

(* ---- TwilioStatusHandler: delivery receipts ---- *)

MessageStatuses == {"queued", "failed", "sent", "delivered", "undelivered"}

\* webhook.ErrorCode absent
NoCode == "none"

RetryableErrors ==
  {"30001", "30002", "30003", "30004", "30005", "30006", "30007", "30008",
   "30009", "30010", "30011", "30012", "30013", "30014", "30015", "30016",
   "30017", "30018", "30019", "30020"}

\* the ErrorCode values of the receipts: an allow-listed one, another one, none
ErrorCodes == {"30001", "21211", NoCode}

\* every code passes the allow-list test
IsRetryableAlways(code) == TRUE

\* webhook.ErrorCode && retryableErrors.includes(webhook.ErrorCode)
IsRetryable(code) == code # NoCode /\ code \in RetryableErrors

\* the documents with metadata.twilioMessageSid = sid
Tracked(sid) == {i \in Ids : queue[i].sid = sid}

\* the document a findOne or updateOne with that filter selects: the first
\* in the collection's natural order
FirstTracked(sid) == CHOOSE i \in Tracked(sid) : \A j \in Tracked(sid) : i <= j

\* the update falling back to the oldest document when none has the sid
updateNotificationStatusAnyItem(sid, status) ==
  IF Ids = {} THEN queue
  ELSE LET i == IF Tracked(sid) = {} THEN 1 ELSE FirstTracked(sid) IN
       [queue EXCEPT ![i] =
          [@ EXCEPT !.status = IF status = "delivered" THEN "sent" ELSE status,
                    !.lastTwilioStatus = status]]

\* the update with status written as received
updateNotificationStatusRaw(sid, status) ==
  IF Tracked(sid) = {} THEN queue
  ELSE [queue EXCEPT ![FirstTracked(sid)] =
          [@ EXCEPT !.status = status, !.lastTwilioStatus = status]]

\* updateOne({ 'metadata.twilioMessageSid': sid }, { $set: { status:
\* status === 'delivered' ? 'sent' : status, 'metadata.lastTwilioStatus' } })
updateNotificationStatus(sid, status) ==
  IF Tracked(sid) = {} THEN queue
  ELSE [queue EXCEPT ![FirstTracked(sid)] =
          [@ EXCEPT !.status = IF status = "delivered" THEN "sent" ELSE status,
                    !.lastTwilioStatus = status]]

\* Math.min(Math.pow(2, retryCount) * 60000, 300000)
ReceiptRetryDelay(rc) == Min((2 ^ rc) * BaseReceiptDelay, CapDelay)

\* handleStatusUpdate is called with a receipt; it runs up to the await of
\* storeWebhookData, whose insert goes to another collection
handleStatusUpdate(sid, status, code) ==
  /\ BagCardinality(hooks) < MaxHooks
  /\ hooks' = hooks (+) SetToBag({[pc |-> "stored", sid |-> sid, status |-> status,
                                    code |-> code, id |-> 0, rc |-> 0]})
  /\ UNCHANGED <<queue, now, config, isProcessing, processingCount, loops,
                 tasks, failCalls, runs, rideCancelled, busVars>>
  /\ returned' = NoResult

\* the switch on MessageStatus and the updateOne of updateNotificationStatus;
\* handleDeliveryFailure passes 'failed' for failed and for undelivered
handleStatusUpdateSwitch(h) ==
  /\ h.pc = "stored"
  /\ queue' = CASE h.status = "delivered" -> updateNotificationStatus(h.sid, "delivered")
                [] h.status \in {"failed", "undelivered"} ->
                     updateNotificationStatus(h.sid, "failed")
                [] h.status = "sent" -> updateNotificationStatus(h.sid, "sent")
                [] OTHER -> queue
  /\ hooks' = IF h.status \in {"failed", "undelivered"}
                THEN Replace(hooks, h, [h EXCEPT !.pc = "retryLogic"])
                ELSE hooks (-) SetToBag({h})
  /\ UNCHANGED <<now, config, isProcessing, processingCount, loops, tasks,
                 failCalls, runs, rideCancelled, busVars>>
  /\ returned' = NoResult

\* handleRetryLogic: the allow-list test and, for a retryable code, the
\* findOne of scheduleRetry with its test on the document read
handleRetryLogic(h) ==
  /\ h.pc = "retryLogic"
  /\ hooks' = IF /\ IsRetryable(h.code)
                  /\ Tracked(h.sid) # {}
                  /\ queue[FirstTracked(h.sid)].retryCount <
                       queue[FirstTracked(h.sid)].maxRetries
                THEN Replace(hooks, h,
                       [h EXCEPT !.pc = "retryWrite",
                                 !.id = FirstTracked(h.sid),
                                 !.rc = queue[FirstTracked(h.sid)].retryCount])
                ELSE hooks (-) SetToBag({h})
  /\ UNCHANGED <<queue, now, config, isProcessing, processingCount, loops,
                 tasks, failCalls, runs, rideCancelled, busVars>>
  /\ returned' = NoResult

\* scheduleRetry: updateOne({ _id }, { $set: { status: 'pending',
\* scheduledTime }, $inc: { retryCount: 1 }, $push: metadata.retryHistory });
\* the delay is computed from the retryCount that was read
scheduleRetry(h) ==
  /\ h.pc = "retryWrite"
  /\ queue[h.id].retryCount < MaxRetryCount
  /\ queue' = [queue EXCEPT ![h.id] =
                 [@ EXCEPT !.status = "pending",
                           !.scheduledTime = now + ReceiptRetryDelay(h.rc),
                           !.retryCount = @ + 1,
                           !.retryHistory = @ + 1]]
  /\ hooks' = hooks (-) SetToBag({h})
  /\ UNCHANGED <<now, config, isProcessing, processingCount, loops, tasks,
                 failCalls, runs, rideCancelled, busVars>>
  /\ returned' = NoResult

\* receipts that report a failure, and their handling
FailureReceipts ==
  \/ \E sid \in Sids, st \in {"failed", "undelivered"}, code \in ErrorCodes :
       handleStatusUpdate(sid, st, code)
  \/ \E h \in BagToSet(hooks) : handleStatusUpdateSwitch(h)
  \/ \E h \in BagToSet(hooks) : handleRetryLogic(h)
  \/ \E h \in BagToSet(hooks) : scheduleRetry(h)

\* failure receipts where those of one message arrive one after another
SerialFailureReceipts ==
  \/ \E sid \in Sids, st \in {"failed", "undelivered"}, code \in ErrorCodes :
       /\ \A h \in BagToSet(hooks) : h.sid # sid
       /\ handleStatusUpdate(sid, st, code)
  \/ \E h \in BagToSet(hooks) : handleStatusUpdateSwitch(h)
  \/ \E h \in BagToSet(hooks) : handleRetryLogic(h)
  \/ \E h \in BagToSet(hooks) : scheduleRetry(h)

\* receipts of every status and code, those of one message one after another
SerialReceipts ==
  \/ \E sid \in Sids, st \in MessageStatuses, code \in ErrorCodes :
       /\ \A h \in BagToSet(hooks) : h.sid # sid
       /\ handleStatusUpdate(sid, st, code)
  \/ \E h \in BagToSet(hooks) : handleStatusUpdateSwitch(h)
  \/ \E h \in BagToSet(hooks) : handleRetryLogic(h)
  \/ \E h \in BagToSet(hooks) : scheduleRetry(h)

\* receipts that report progress (they carry no ErrorCode), and their handling
ProgressReceipts ==
  \/ \E sid \in Sids, st \in MessageStatuses \ {"failed", "undelivered"} :
       handleStatusUpdate(sid, st, NoCode)
  \/ \E h \in BagToSet(hooks) : handleStatusUpdateSwitch(h)

FailCalls ==
  \/ \E i \in Ids : markNotificationFailedRead(i)
  \/ \E c \in BagToSet(failCalls) : markNotificationFailedWrite(c)

\* the queue's public operations called one after another or concurrently
InitRetry ==
  Init /\ config.maxConcurrent = DefaultMaxConcurrent
       /\ config.retryDelays = RetryDelays

NextRetry ==
  \/ addEmergencyNotification
  \/ FailCalls
  \/ \E i \in Ids : markNotificationSent(i)
  \/ \E i \in Ids : cancelNotification(i)
  \/ Clock

SpecRetry == InitRetry /\ [][NextRetry]_vars

\* producers and the queue's background loop
InitLoop ==
  Init /\ config.maxRetries = DefaultMaxRetries /\ config.maxConcurrent <= 2
       /\ config.retryDelays = RetryDelays

NextLoop ==
  \/ addSMSNotification
  \/ Loop
  \/ Clock

SpecLoop == InitLoop /\ [][NextLoop]_vars

\* one kind of item, the loop, and calls that take an item out of pending
NextClaim ==
  \/ addEmergencyNotification
  \/ Loop
  \/ \E i \in Ids : markNotificationSent(i)
  \/ \E i \in Ids : cancelNotification(i)
  \/ Clock

SpecClaim == InitLoop /\ [][NextClaim]_vars

\* producers, ride cancellation and the periodic tick of DispatchBot
\* the loop with markNotificationFailed calls made while it runs
NextLoopFail ==
  \/ addEmergencyNotification
  \/ Loop
  \/ FailCalls
  \/ Clock

SpecLoopFail == InitLoop /\ [][NextLoopFail]_vars

\* scheduled and unscheduled items, calls that end them, time
NextSched ==
  \/ addPickupReminder
  \/ addEmergencyNotification
  \/ \E i \in Ids : markNotificationSent(i)
  \/ \E i \in Ids : cancelNotification(i)
  \/ Clock

InitSched == InitRetry /\ config.maxRetries = 2

SpecSched == InitSched /\ [][NextSched]_vars

\* items of two rides and of none, in every status the calls produce
NextRide ==
  \/ addStatusUpdateNotification
  \/ addEmergencyNotification
  \/ \E i \in Ids : markNotificationProcessingCall(i)
  \/ \E i \in Ids : markNotificationSent(i)
  \/ \E r \in Rides : cancelRideNotifications(r)

SpecRide == InitSched /\ [][NextRide]_vars

\* every way of enqueueing
NextAdd ==
  \/ addSMSNotification
  \/ addRideUpdateNotification
  \/ addEmergencyNotification
  \/ addPickupReminder
  \/ addDelayNotification
  \/ addStatusUpdateNotification
  \/ addNotificationDirect
  \/ \E i \in Ids : markNotificationSent(i)

SpecAdd == InitSched /\ [][NextAdd]_vars

\* the loop started by addNotification and stopped by stopProcessing
NextStop ==
  \/ addEmergencyNotification
  \/ Loop
  \/ stopProcessing
  \/ Clock

SpecStop == InitLoop /\ [][NextStop]_vars

\* the public operations under every configured retryDelays table
InitTable ==
  Init /\ config.maxConcurrent = DefaultMaxConcurrent
       /\ config.maxRetries = DefaultMaxRetries

SpecTable == InitTable /\ [][NextRetry]_vars

InitReceipt ==
  Init /\ config.maxRetries = DefaultMaxRetries
       /\ config.maxConcurrent = DefaultMaxConcurrent
       /\ config.retryDelays = RetryDelays

\* tracked messages and the failure receipts that arrive for them
NextReceiptFail ==
  \/ addSMSNotificationTracked
  \/ FailureReceipts

SpecReceiptFail == InitReceipt /\ [][NextReceiptFail]_vars

\* tracked messages and failure receipts, one at a time for each message
NextReceiptSerial ==
  \/ addSMSNotificationTracked
  \/ SerialFailureReceipts

SpecReceiptSerial == InitReceipt /\ [][NextReceiptSerial]_vars

\* tracked and untracked messages and receipts of every kind
NextReceiptAny ==
  \/ addSMSNotificationTracked
  \/ addEmergencyNotification
  \/ SerialReceipts

SpecReceiptAny == InitReceipt /\ [][NextReceiptAny]_vars

\* tracked messages, sent, and the progress receipts that arrive for them
NextReceiptOk ==
  \/ addSMSNotificationTracked
  \/ \E i \in Ids : markNotificationSent(i)
  \/ ProgressReceipts

SpecReceiptOk == InitReceipt /\ [][NextReceiptOk]_vars

InitTick ==
  Init /\ config.maxRetries = DefaultMaxRetries
       /\ config.maxConcurrent = DefaultMaxConcurrent
       /\ config.retryDelays = RetryDelays

NextTick ==
  \/ addStatusUpdateNotification
  \/ \E r \in Rides : cancelRideNotifications(r)
  \/ Tick
  \/ Clock

SpecTick == InitTick /\ [][NextTick]_vars

\* a RideEventManager, its subscribers and the callers of its publishing methods
InitBus ==
  Init /\ config.maxRetries = DefaultMaxRetries
       /\ config.maxConcurrent = DefaultMaxConcurrent
       /\ config.retryDelays = RetryDelays

NextBus ==
  \/ \E k \in SubscribedKinds, h \in PlainHandlers : on(k, h)
  \/ publishCall
  \/ \E e \in BagToSet(emits) : storeEvent(e)
  \/ \E e \in BagToSet(emits) : handlerSettles(e)

SpecBus == InitBus /\ [][NextBus]_vars

\* DispatchBot after start(): its handlers registered, its watchers running
InitDispatch ==
  /\ InitQueue
  /\ config.maxRetries = DefaultMaxRetries
  /\ config.maxConcurrent = DefaultMaxConcurrent
  /\ config.retryDelays = RetryDelays
  /\ eventHandlers = setupEventHandlers
  /\ emits = EmptyBag
  /\ published = NoPublish
  /\ riderequests = InitialRides
  /\ changes = EmptyBag

\* status changes of rides, each arriving when the one before it has been
\* handled, and the notifications they produce
NextTranslate ==
  \/ emits = EmptyBag /\ StatusWatchers
  \/ Emit

SpecTranslate == InitDispatch /\ [][NextTranslate]_vars

\* new rides, assignments and the notifications they produce
NextAssign ==
  \/ AssignmentWatchers
  \/ Emit

SpecAssign == InitDispatch /\ [][NextAssign]_vars

\* the loop and the tick with datastore and sender failures
NextFaults ==
  \/ addEmergencyNotification
  \/ Loop
  \/ LoopFaults
  \/ Tick
  \/ TickFaults
  \/ Clock

SpecFaults == InitTick /\ [][NextFaults]_vars

\* items in every status (the sends of the first item are the ones that
\* fail), and the statistics read between the operations
NextStats ==
  \/ addEmergencyNotification
  \/ \E i \in Ids : markNotificationProcessingCall(i)
  \/ \E i \in Ids : markNotificationSent(i)
  \/ \E i \in Ids : cancelNotification(i)
  \/ Ids # {} /\ markNotificationFailedRead(1)
  \/ \E c \in BagToSet(failCalls) : markNotificationFailedWrite(c)
  \/ getQueueStats

SpecStats == InitSched /\ [][NextStats]_vars

\* every operation that writes to an item: the queue's operations, the tick
\* and the receipts, on items of several priorities.  Calls are made one
\* after another (a call starts when no tick and no receipt is in progress);
\* the first item fails once outside the tick, a tick starts while no item
\* has failed, and each message gets one receipt
NextFrame ==
  \/ runs = EmptyBag /\ hooks = EmptyBag /\ addSMSNotificationWithMetadata
  \/ \E i \in Ids : runs = EmptyBag /\ hooks = EmptyBag /\ markNotificationProcessingCall(i)
  \/ \E i \in Ids : runs = EmptyBag /\ hooks = EmptyBag /\ markNotificationSent(i)
  \/ \E i \in Ids : runs = EmptyBag /\ hooks = EmptyBag /\ cancelNotification(i)
  \/ \E r \in Rides : runs = EmptyBag /\ hooks = EmptyBag /\ cancelRideNotifications(r)
  \/ /\ Ids # {} /\ hooks = EmptyBag /\ runs = EmptyBag
     /\ queue[1].errors = 0
     /\ markNotificationFailedRead(1)
  \/ \E c \in BagToSet(failCalls) : markNotificationFailedWrite(c)
  \/ /\ hooks = EmptyBag /\ failCalls = EmptyBag
     /\ \A i \in Ids : queue[i].errors = 0
     /\ processNotificationQueueStart
  \/ \E r \in BagToSet(runs) : processNotificationQueueFetch(r)
  \/ \E r \in BagToSet(runs) : processNotificationQueueNext(r)
  \/ \E r \in BagToSet(runs) : processNotificationQueueSendDone(r)
  \/ \E r \in BagToSet(runs) : processNotificationQueueMarkSent(r)
  \/ \E r \in BagToSet(runs) : processNotificationQueueFailRead(r)
  \/ \E r \in BagToSet(runs) : processNotificationQueueFailWrite(r)
  \/ \E sid \in Sids, st \in MessageStatuses, code \in ErrorCodes :
       /\ hooks = EmptyBag /\ runs = EmptyBag /\ failCalls = EmptyBag
       /\ \A i \in Ids : queue[i].sid = sid => queue[i].lastTwilioStatus = Unset
       /\ handleStatusUpdate(sid, st, code)
  \/ \E h \in BagToSet(hooks) : handleStatusUpdateSwitch(h)
  \/ \E h \in BagToSet(hooks) : handleRetryLogic(h)
  \/ \E h \in BagToSet(hooks) : scheduleRetry(h)

SpecFrame == InitTick /\ [][NextFrame]_vars

\* items enqueued with a maxRetries of their own, and the failures of their sends
NextBudget ==
  \/ addNotificationDirect
  \/ FailCalls
  \/ Clock

SpecBudget == InitSched /\ [][NextBudget]_vars

\* the tick, whose failed sends call markNotificationFailed, and another
\* caller of markNotificationFailed
NextAudit ==
  \/ addEmergencyNotification
  \/ FailCalls
  \/ Tick

SpecAudit == InitTick /\ [][NextAudit]_vars

\* ticks that fire every 10 seconds whether or not the run before has ended
NextOverlap ==
  \/ addEmergencyNotification
  \/ cronTick(MaxOverlap)
  \/ \E r \in BagToSet(runs) : processNotificationQueueFetch(r)
  \/ \E r \in BagToSet(runs) : processNotificationQueueNext(r)
  \/ \E r \in BagToSet(runs) : processNotificationQueueSendDone(r)
  \/ \E r \in BagToSet(runs) : processNotificationQueueMarkSent(r)
  \/ \E r \in BagToSet(runs) : processNotificationQueueFailRead(r)
  \/ \E r \in BagToSet(runs) : processNotificationQueueFailWrite(r)

SpecOverlap == InitTick /\ [][NextOverlap]_vars

\* status changes of rides handled one after another, and claims and
\* completed sends of the notifications they produced
NextCancel ==
  \/ emits = EmptyBag /\ StatusWatchers
  \/ \E e \in BagToSet(emits) : storeEvent(e)
  \/ \E e \in BagToSet(emits) : handlerSettles(e)
  \/ \E e \in BagToSet(emits) : handlerCalls(e)
  \/ \E i \in Ids : markNotificationProcessingCall(i)
  \/ \E i \in Ids : markNotificationSent(i)

SpecCancel == InitDispatch /\ [][NextCancel]_vars

\* items enqueued at the start, a dispatcher that claims the first of them,
\* the tick that fires again and again, a sender that answers every call,
\* and time that passes: at once beyond the staleness threshold, or up to
\* the next scheduledTime
NextLive ==
  \/ now = 0 /\ addEmergencyNotification
  \/ Ids # {} /\ markNotificationProcessingCall(1)
  \/ Tick
  \/ now = 0 /\ Advance(StaleThreshold + ProcessInterval)
  \/ TimerDue

\* node-cron fires the tick every 10 seconds, every awaited call of a run
\* is answered, and time passes
FairLive ==
  /\ WF_vars(processNotificationQueueStart)
  /\ WF_vars(\E r \in BagToSet(runs) : processNotificationQueueFetch(r))
  /\ WF_vars(\E r \in BagToSet(runs) : processNotificationQueueNext(r))
  /\ WF_vars(\E r \in BagToSet(runs) : processNotificationQueueSendDone(r))
  /\ WF_vars(\E r \in BagToSet(runs) : processNotificationQueueMarkSent(r))
  /\ WF_vars(\E r \in BagToSet(runs) : processNotificationQueueFailRead(r))
  /\ WF_vars(\E r \in BagToSet(runs) : processNotificationQueueFailWrite(r))
  /\ WF_vars(TimerDue)

SpecLive == InitTick /\ [][NextLive]_vars /\ FairLive

\* status updates by the ride request application, which also hands rides
\* over and deletes them, the watchers' callbacks and the handlers they
\* start; a callback resumes when the event before it has been handled
NextReread ==
  \/ emits = EmptyBag /\ RereadWatchers
  \/ Emit

SpecReread == InitDispatch /\ [][NextReread]_vars

Next == NextRetry \/ NextLoop \/ NextClaim \/ NextLoopFail \/ NextSched \/ NextRide \/ NextAdd \/ NextStop \/ NextReceiptFail \/ NextReceiptSerial \/ NextReceiptAny \/ NextReceiptOk \/ NextTick \/ NextBus \/ NextTranslate \/ NextAssign \/ NextFaults \/ NextStats \/ NextFrame \/ NextBudget \/ NextAudit \/ NextOverlap \/ NextCancel \/ NextLive \/ NextReread

Spec == Init /\ [][Next]_vars

(* ---- properties ---- *)

\* the priority order of the specification: urgent > high > medium > low
PriorityLevel(p) ==
  CASE p = "low" -> 1
    [] p = "medium" -> 2
    [] p = "high" -> 3
    [] p = "urgent" -> 4

\* this step moves item i from pending to processing
Claimed(i) ==
  queue[i].status = "pending" /\ queue'[i].status = "processing"

\* this step applies a markNotificationFailed update to item i
FailureRecorded(i) == queue'[i].errors = queue[i].errors + 1

\* this step hands item i to twilioSender.sendSMS
HandedToSender(i) ==
  \E r \in BagToSet(runs') :
    /\ r.pc = "sending"
    /\ Head(r.batch) = i
    /\ CopiesIn(r, runs') > CopiesIn(r, runs)

StatusEdges ==
  {<<"pending", "processing">>, <<"processing", "sent">>,
   <<"processing", "failed">>, <<"failed", "pending">>,
   <<"pending", "cancelled">>, <<"processing", "cancelled">>}

\* a failed attempt that is re-queued in the same write passes through failed
RetryEdge(i) ==
  /\ queue[i].status \in {"processing", "failed"}
  /\ queue'[i].status = "pending"
  /\ queue[i].retryCount < queue[i].maxRetries
  /\ queue'[i].scheduledTime > now

\* C1: an item's status changes only along pending->processing,
\* processing->sent, processing->failed, failed->pending (only with
\* retryCount < maxRetries and a future scheduledTime), pending->cancelled and
\* processing->cancelled; sent and cancelled are never left, and pending never
\* goes directly to sent or failed.
C1_StatusEdgesOnly ==
  [][\A i \in Ids :
       queue'[i].status # queue[i].status =>
         \/ /\ <<queue[i].status, queue'[i].status>> \in StatusEdges
            /\ queue[i].status # "failed"
         \/ RetryEdge(i)]_vars

\* C2: a claim (markNotificationProcessing) returns true exactly when the
\* item is pending and then leaves it processing; on an item that is not
\* pending it returns false and changes nothing; of the claims in progress on
\* one item at most one has returned true.
C2_ClaimStep ==
  \A t \in BagToSet(tasks) :
    (t.pc = "claim" /\ CopiesIn(t, tasks') < CopiesIn(t, tasks)) =>
      LET claimReturned(b) ==
            CopiesIn([t EXCEPT !.pc = "resume", !.ok = b], tasks') >
            CopiesIn([t EXCEPT !.pc = "resume", !.ok = b], tasks)
      IN IF queue[t.id].status = "pending"
           THEN /\ claimReturned(TRUE)
                /\ queue'[t.id].status = "processing"
                /\ \A j \in Ids \ {t.id} : queue'[j] = queue[j]
           ELSE /\ claimReturned(FALSE)
                /\ queue' = queue

C2_OneWinner ==
  \A i \in Ids : CopiesIn([id |-> i, pc |-> "resume", ok |-> TRUE], tasks) <= 1

C2_ClaimIsCompareAndSet == []C2_OneWinner /\ [][C2_ClaimStep]_vars

\* two claims on the same item have both returned: one true, one false
C2_Witness ==
  \E i \in Ids :
    /\ CopiesIn([id |-> i, pc |-> "resume", ok |-> TRUE], tasks) = 1
    /\ CopiesIn([id |-> i, pc |-> "resume", ok |-> FALSE], tasks) = 1
    /\ queue[i].status = "processing"

\* C3: every item has retryCount <= maxRetries in every reachable state.
C3_RetryCountBounded ==
  \A i \in Ids : queue[i].retryCount <= queue[i].maxRetries

\* C4: immediately after the N-th markNotificationFailed on an item with
\* maxRetries = N whose attempts all failed, the item is failed with
\* retryCount = N.
C4_FailedAfterMaxRetries ==
  [][\A i \in Ids :
       (/\ FailureRecorded(i)
        /\ queue[i].status \in {"pending", "processing"}
        /\ queue[i].retryCount = queue[i].errors
        /\ queue'[i].errors = queue[i].maxRetries) =>
         /\ queue'[i].status = "failed"
         /\ queue'[i].retryCount = queue[i].maxRetries]_vars

\* C5: markNotificationFailed on an item that is failed with its retry
\* budget exhausted leaves status failed and retryCount and scheduledTime
\* unchanged.
C5_FailedIsAbsorbing ==
  [][\A i \in Ids :
       (/\ FailureRecorded(i)
        /\ queue[i].status = "failed"
        /\ queue[i].retryCount >= queue[i].maxRetries) =>
         /\ queue'[i].status = "failed"
         /\ queue'[i].retryCount = queue[i].retryCount
         /\ queue'[i].scheduledTime = queue[i].scheduledTime]_vars

\* C6: after cancelRideNotifications(C) has completed, no item of ride C
\* that existed then is handed to the sender or reaches status sent.
C6_NoSendAfterRideCancel ==
  [][\A i \in rideCancelled :
       /\ ~HandedToSender(i)
       /\ queue'[i].status = "sent" => queue[i].status = "sent"]_vars

\* C7: the number of items in status processing never exceeds maxConcurrent.
C7_ConcurrencyCeiling ==
  Cardinality({i \in Ids : queue[i].status = "processing"}) <= config.maxConcurrent

\* C8: an item is never claimed while a pending, eligible item of higher
\* priority (urgent > high > medium > low) is in the queue.
C8_HigherPriorityFirst ==
  [][\A i, j \in Ids :
       (Claimed(j) /\ IsEligible(j) /\ IsEligible(i)) =>
         PriorityLevel(queue[i].priority) <= PriorityLevel(queue[j].priority)]_vars

\* C9: an item is never claimed while a pending, eligible item of the same
\* priority with an earlier createdAt is in the queue.
C9_FifoWithinPriority ==
  [][\A i, j \in Ids :
       (/\ Claimed(j) /\ IsEligible(j) /\ IsEligible(i)
        /\ queue[i].priority = queue[j].priority) =>
         queue[i].createdAt >= queue[j].createdAt]_vars

\* C10: in every result of getPendingNotifications, whatever the limit, no
\* non-urgent item precedes an eligible urgent item, and no non-urgent item is
\* included while an eligible urgent item is left out.
C10_UrgentFirst ==
  \A limit \in 1..config.batchSize :
    \A s \in getPendingNotifications(limit) :
      \A u \in Ids :
        (IsEligible(u) /\ queue[u].priority = "urgent") =>
          \A a \in 1..Len(s) :
            (queue[s[a]].priority # "urgent") =>
              \E b \in 1..(a - 1) : s[b] = u

\* the loop fetched a batch in which an urgent item created later comes
\* before an older non-urgent item
C10_Witness ==
  \E l \in BagToSet(loops) :
    /\ l.pc = "spawn"
    /\ Len(l.batch) >= 2
    /\ queue[l.batch[1]].priority = "urgent"
    /\ queue[l.batch[2]].priority # "urgent"
    /\ queue[l.batch[1]].createdAt > queue[l.batch[2]].createdAt
    /\ IsEligible(l.batch[1])
    /\ IsEligible(l.batch[2])

\* C11: every result of getPendingNotifications(limit) holds only pending
\* items whose scheduledTime is unset or not after now; an item whose
\* scheduledTime is T is in no result while now < T, and is in every result
\* once now >= T if it is pending and the limit does not cut the result.
C11_ScheduledEligibility ==
  \A limit \in 1..config.batchSize :
    \A s \in getPendingNotifications(limit) :
      /\ \A a \in 1..Len(s) :
           /\ queue[s[a]].status = "pending"
           /\ queue[s[a]].scheduledTime = NoTime \/ queue[s[a]].scheduledTime <= now
      /\ \A i \in Ids :
           queue[i].scheduledTime >= 0 =>
             /\ now < queue[i].scheduledTime => i \notin Range(s)
             /\ (/\ now >= queue[i].scheduledTime
                 /\ queue[i].status = "pending"
                 /\ Len(s) < limit) => i \in Range(s)

\* an item enqueued with a scheduledTime later than its creation is returned
\* once that time has come
C11_Witness ==
  \E i \in Ids :
    /\ queue[i].scheduledTime > queue[i].createdAt
    /\ queue[i].retryCount = 0
    /\ now >= queue[i].scheduledTime
    /\ \E s \in getPendingNotifications(config.batchSize) : i \in Range(s)

\* C12: no step moves an item to processing while the item's scheduledTime
\* is later than now, also when the item was fetched as eligible and then
\* failed and re-scheduled before the claim.
C12_NoClaimBeforeScheduledTime ==
  [][\A j \in Ids : Claimed(j) => queue[j].scheduledTime <= now]_vars

\* C13: a cancelNotification call changes the item to cancelled only when
\* the item is pending or processing; on an item that is sent, failed or
\* cancelled it returns false and leaves the status as it was.
C13_CancelOnlyNonTerminal ==
  [][returned'.op = "cancelNotification" =>
       LET i == returned'.arg IN
       IF queue[i].status \in {"pending", "processing"}
         THEN queue'[i].status = "cancelled"
         ELSE returned'.val = 0 /\ queue'[i].status = queue[i].status]_vars

\* C14: a cancelRideNotifications(C) call made when N items of ride C are
\* pending or processing returns N and leaves no item of C pending or
\* processing; every other item, of another ride or of C in sent, failed or
\* cancelled, is unchanged.
C14_CancelRideFrame ==
  [][returned'.op = "cancelRideNotifications" =>
       LET C == returned'.arg
           open == {i \in Ids : /\ queue[i].ride = C
                                /\ queue[i].status \in {"pending", "processing"}}
       IN /\ returned'.val = Cardinality(open)
          /\ Len(queue') = Len(queue)
          /\ \A i \in Ids :
               /\ queue[i].ride = C =>
                    queue'[i].status \notin {"pending", "processing"}
               /\ i \in open => queue'[i] = [queue[i] EXCEPT !.status = "cancelled"]
               /\ i \notin open => queue'[i] = queue[i]]_vars

\* a call that cancelled two items, all there are of its ride
C14_Witness ==
  /\ returned.op = "cancelRideNotifications"
  /\ returned.val = 2
  /\ \A i \in Ids : queue[i].ride = returned.arg /\ queue[i].status = "cancelled"

\* C15: every addNotification call, direct or through a wrapper, stores one
\* new item with status pending and retryCount 0 whatever the caller's object
\* held, returns the id of that item, and leaves the stored items as they were.
C15_AddStoresPending ==
  [][returned'.op = "addNotification" =>
       /\ Len(queue') = Len(queue) + 1
       /\ returned'.val = Len(queue')
       /\ queue'[returned'.val].status = "pending"
       /\ queue'[returned'.val].retryCount = 0
       /\ \A i \in Ids : queue'[i] = queue[i]]_vars

\* a direct call (its maxRetries is not the configured one) has stored an
\* item after another item was sent
C15_Witness ==
  /\ returned.op = "addNotification"
  /\ queue[returned.val].maxRetries # config.maxRetries
  /\ queue[returned.val].status = "pending"
  /\ \E i \in Ids : queue[i].status = "sent"

\* C16: after any sequence of addNotification and stopProcessing calls at most
\* one startProcessing loop is running on the queue.
C16_AtMostOneLoop == BagCardinality(loops) <= 1

\* the table entry the backoff policy names for retryCount r; beyond the
\* table's length the fallback delay
TableDelay(r) ==
  IF r + 1 <= Len(config.retryDelays) THEN config.retryDelays[r + 1]
  ELSE FallbackRetryDelay

\* C17: when a markNotificationFailed call that read retryCount r re-queues
\* the item, the new scheduledTime is now + min(retryDelays[r], 5 minutes),
\* for every r and every configured table.
C17_BackoffCapped ==
  [][\A c \in BagToSet(failCalls) :
       (/\ CopiesIn(c, failCalls') < CopiesIn(c, failCalls)
        /\ queue'[c.id].status = "pending") =>
         queue'[c.id].scheduledTime = now + Min(TableDelay(c.rc), CapDelay)]_vars

\* this step is a step of the handleStatusUpdate call h
HookStep(h) == CopiesIn(h, hooks') < CopiesIn(h, hooks)

\* C18: a failed or undelivered receipt whose ErrorCode is missing or not in
\* the allow-list sets the tracked item to failed, leaves its retryCount and
\* scheduledTime as they were, and ends without reading or re-queueing it.
C18_NonRetryableTerminal ==
  [][\A h \in BagToSet(hooks) :
       (/\ HookStep(h)
        /\ h.status \in {"failed", "undelivered"}
        /\ h.code \notin RetryableErrors
        /\ Tracked(h.sid) # {}) =>
         LET i == FirstTracked(h.sid) IN
         /\ h.pc \in {"stored", "retryLogic"}
         /\ h.pc = "stored" =>
              /\ queue'[i] = [queue[i] EXCEPT !.status = "failed",
                                              !.lastTwilioStatus = "failed"]
              /\ \A j \in Ids \ {i} : queue'[j] = queue[j]
         /\ h.pc = "retryLogic" =>
              /\ queue' = queue
              /\ hooks' = hooks (-) SetToBag({h})]_vars

\* a receipt without a retryable code has been handled for an item with
\* retryCount 0 and maxRetries 3, and the item is failed
C18_Witness ==
  /\ hooks = EmptyBag
  /\ \E i \in Ids :
       /\ queue[i].sid # NoSid
       /\ queue[i].status = "failed"
       /\ queue[i].lastTwilioStatus = "failed"
       /\ queue[i].retryCount = 0
       /\ queue[i].maxRetries = 3

\* C19: the write of a retryable failure receipt re-queues the item as
\* pending with retryCount one higher and a future scheduledTime when the
\* item's retryCount is below its maxRetries, and otherwise the receipt leaves
\* the item failed with its retryCount; also with two receipts in progress.
C19_ReceiptRetryWithinBudget ==
  [][\A h \in BagToSet(hooks) :
       (HookStep(h) /\ h.code \in RetryableErrors) =>
         /\ h.pc = "retryWrite" =>
              IF queue[h.id].retryCount < queue[h.id].maxRetries
                THEN /\ queue'[h.id].status = "pending"
                     /\ queue'[h.id].retryCount = queue[h.id].retryCount + 1
                     /\ queue'[h.id].scheduledTime > now
                ELSE /\ queue'[h.id].status = "failed"
                     /\ queue'[h.id].retryCount = queue[h.id].retryCount
         /\ (/\ h.pc = "retryLogic"
             /\ Tracked(h.sid) # {}
             /\ queue[FirstTracked(h.sid)].retryCount >=
                  queue[FirstTracked(h.sid)].maxRetries) =>
              /\ queue' = queue
              /\ hooks' = hooks (-) SetToBag({h})]_vars

C21_UnknownReceiptDropped ==
  [][\A h \in BagToSet(hooks) :
       (HookStep(h) /\ \A i \in Ids : queue[i].sid # h.sid) =>
         /\ queue' = queue
         /\ h.pc # "retryWrite"
         /\ BagCardinality(hooks') <= BagCardinality(hooks)
         /\ h.pc = "retryLogic" => hooks' = hooks (-) SetToBag({h})]_vars

\* a failure receipt with a retryable code for a reference no item carries
\* has passed its update while items are in the queue
C21_Witness ==
  /\ queue # <<>>
  /\ \E h \in BagToSet(hooks) :
       /\ h.pc = "retryLogic"
       /\ h.code \in RetryableErrors
       /\ \A i \in Ids : queue[i].sid # h.sid

\* C22: an item the dispatcher marks sent after a successful send carries
\* the provider's message reference of that send in its metadata.
C22_SentItemCarriesReference ==
  [][\A i \in Ids :
       (queue[i].status # "sent" /\ queue'[i].status = "sent") =>
         queue'[i].sid # NoSid]_vars

\* C23: a publishing call that completes has invoked the handlers registered
\* for the kind of its event, each once and in the order of registration,
\* each ending before the next starts, and no handler of another kind.
C23_HandlersInRegistrationOrder ==
  [][published' # NoPublish =>
       LET hs == eventHandlers[published'.event.eventType]
           tr == published'.trace
       IN /\ Len(tr) = 2 * Len(hs)
          /\ \A k \in 1..Len(hs) :
               /\ tr[2 * k - 1] = [handler |-> hs[k], phase |-> "start"]
               /\ tr[2 * k].handler = hs[k]
               /\ tr[2 * k].phase \in {"returned", "thrown", "rejected"}]_vars

C23_Witness ==
  LET k == published.event.eventType IN
  /\ k \in SubscribedKinds
  /\ Len(published.trace) = 4
  /\ published.trace[1].handler # published.trace[3].handler
  /\ \E o \in SubscribedKinds \ {k} :
       /\ eventHandlers[o] # <<>>
       /\ \A j \in 1..Len(eventHandlers[o]) :
            eventHandlers[o][j] \notin Range(eventHandlers[k])

\* C24: after a handler throws or rejects, the handlers registered after it
\* for the same event are still invoked, and the publishing call completes
\* without an error.
C24_HandlerFailureIsolated ==
  [][published' # NoPublish =>
       LET hs == eventHandlers[published'.event.eventType]
           tr == published'.trace
       IN /\ ~published'.error
          /\ \A j \in 1..Len(tr) :
               (tr[j].phase \in {"thrown", "rejected"} /\ j < 2 * Len(hs)) =>
                 /\ j + 1 <= Len(tr)
                 /\ tr[j + 1].phase = "start"]_vars

C24_Witness ==
  /\ Len(published.trace) = 4
  /\ published.trace[2].phase = "rejected"
  /\ published.trace[3].phase = "start"
  /\ published.trace[4].phase = "thrown"
  /\ ~published.error

\* the event kind of each ride-progress code of the translator's table
ProgressTable ==
  (100 :> "REQUEST_CONFIRMED") @@ (109 :> "REQUEST_CANCELED") @@
  (200 :> "RIDE_STARTED") @@ (209 :> "RIDE_INTERRUPTED") @@
  (300 :> "RIDER_PICKED_UP") @@ (309 :> "RIDER_NOT_PICKED_UP") @@
  (400 :> "RIDER_DROPPED_OFF") @@ (409 :> "RIDER_NOT_DROPPED_OFF") @@
  (450 :> "ROUNDTRIP_RETURNING") @@ (459 :> "ROUNDTRIP_RETURN_INTERRUPTED") @@
  (475 :> "ROUNDTRIP_COMPLETE") @@ (479 :> "ROUNDTRIP_COMPLETION_INTERRUPTED") @@
  (500 :> "RIDE_COMPLETE") @@ (509 :> "RIDE_INCOMPLETE")

\* the ride document with the uuid r
Document(r) == CHOOSE d \in RideDocuments : d.uuid = r

\* C25: a rideStatus change to a code of the table starts exactly one
\* publishing call, of the kind of the code and with the uuid and the
\* serviceUserUuid of the ride document; no other step starts one.
C25_ProgressCodeEmitsOneEvent ==
  [][/\ (returned'.op = "rideStatus" /\ returned'.arg \in DOMAIN ProgressTable) =>
         (\E e \in BagToSet(emits') :
            /\ emits' = emits (+) SetToBag({e})
            /\ e.event.eventType = ProgressTable[returned'.arg]
            /\ e.event.rideRequestUuid = returned'.val
            /\ e.event.serviceUserUuid = Document(returned'.val).serviceUserUuid)
     /\ (BagCardinality(emits') > BagCardinality(emits)) =>
         (returned'.op \in {"rideStatus", "rideRequestStatus"})]_vars

C25_Witness ==
  /\ returned = [op |-> "rideStatus", arg |-> 300, val |-> 2]
  /\ queue # <<>>
  /\ \E e \in BagToSet(emits) :
       e.event = NewEvent("RIDER_PICKED_UP", 2, 12, NoDriver)

\* C26: a status change to a code that is absent from the table of its
\* status space starts no publishing call, enqueues nothing and changes
\* nothing else.
C26_AbsentCodeIsNoOp ==
  [][(\/ returned'.op = "rideStatus" /\ returned'.arg \notin DOMAIN ProgressTable
      \/ /\ returned'.op = "rideRequestStatus"
         /\ returned'.arg \notin {109, 409, 599, 699, 799}) =>
       /\ emits' = emits
       /\ queue' = queue
       /\ published' = NoPublish
       /\ UNCHANGED <<queueVars, eventHandlers>>]_vars

C26_Witness ==
  /\ queue # <<>>
  /\ \/ returned.op = "rideStatus" /\ returned.arg = 250
     \/ returned.op = "rideRequestStatus" /\ returned.arg = 1100

\* C30: the publishing call of a detected vehicle assignment completes with
\* a notification enqueued for the ride.
C30_VehicleAssignmentNotifies ==
  [][(published' # NoPublish /\
      published'.event.eventType = "VEHICLE_ASSIGNED") =>
       \E i \in published'.added :
         queue'[i].ride = published'.event.rideRequestUuid]_vars

\* C27: a failure inside a send attempt or a tick does not stop dispatching:
\* a run of the tick that moves on keeps the rest of its batch and ends only
\* when its batch is empty, and a loop ends only when processing was stopped.
C27_FailureKeepsDispatching ==
  [][/\ \A r \in BagToSet(runs) :
          CopiesIn(r, runs') < CopiesIn(r, runs) =>
            \/ r.pc = "next" /\ r.batch = <<>>
            \/ \E r2 \in BagToSet(runs') :
                 /\ CopiesIn(r2, runs') > CopiesIn(r2, runs)
                 /\ \/ r2.batch = r.batch
                    \/ r.batch # <<>> /\ r2.batch = Tail(r.batch)
                    \/ r.pc = "fetchProcessing"
     /\ BagCardinality(loops') < BagCardinality(loops) => ~isProcessing
     /\ \A l \in BagToSet(loops) :
          (l.pc = "fetch" /\ CopiesIn(l, loops') < CopiesIn(l, loops)) =>
            \E l2 \in BagToSet(loops') : l2.pc = "spawn"]_vars

\* the run has passed its first notification, which a failed mark* call
\* left untouched, and goes on with the second
C27_Witness ==
  /\ Len(queue) = 2
  /\ queue[1].status = "pending"
  /\ queue[1].errors = 0
  /\ \E r \in BagToSet(runs) : r.pc = "next" /\ r.batch = <<2>>
  /\ \E l \in BagToSet(loops) : l.pc = "sleep"

\* C28: getQueueStats returns for pending, processing, sent and failed the
\* number of items in that status and for total the number of all items;
\* when the datastore fails it returns zero for all five.
C28_StatsCountItems ==
  [][returned'.op = "getQueueStats" =>
       IF returned'.arg = 0
         THEN /\ \A st \in {"pending", "processing", "sent", "failed"} :
                   returned'.val[st] =
                     Cardinality({i \in Ids : queue[i].status = st})
              /\ returned'.val["total"] = Len(queue)
         ELSE \A k \in {"pending", "processing", "sent", "failed", "total"} :
                returned'.val[k] = 0]_vars

C28_Witness ==
  /\ returned.op = "getQueueStats"
  /\ returned.arg = 0
  /\ returned.val["total"] = 2
  /\ returned.val["failed"] = 1
  /\ \E i \in Ids : queue[i].status = "cancelled"

\* C29: no step changes the priority of an item that exists.
C29_PriorityNeverChanges ==
  [][\A i \in Ids : queue'[i].priority = queue[i].priority]_vars

\* an urgent item went through a failed send, a retry scheduled by a receipt
\* and a cancellation, next to an item of another priority
C29_Witness ==
  \E i, j \in Ids :
    /\ queue[i].priority = "urgent"
    /\ queue[j].priority = "low"
    /\ queue[i].status = "cancelled"
    /\ queue[i].errors > 0
    /\ queue[i].retryHistory > 0

\* C31: the external sender is invoked for an item only after the item was
\* claimed (pending -> processing): an item that is pending, sent, failed or
\* cancelled is never handed to the sender.
C31_SenderOnlyAfterClaim ==
  [][\A i \in Ids : HandedToSender(i) => queue[i].status = "processing"]_vars

\* this step is the staleness test of a run deciding to fail item i
SweepFails(i) ==
  \E r \in BagToSet(runs) :
    /\ r.pc = "next"
    /\ r.batch # <<>>
    /\ Head(r.batch) = i
    /\ runs' = Replace(runs, r, [r EXCEPT !.pc = "failRead"])

\* C32: the staleness sweep of the tick fails an item only if the item is in
\* status processing; a pending item is never failed by the sweep, however
\* long ago it was created.
C32_SweepFailsOnlyStuckProcessing ==
  [][\A i \in Ids : SweepFails(i) => queue[i].status = "processing"]_vars

\* C33: the reconciler's retry and markNotificationFailed are the same retry
\* path: from the same item state (retryCount, maxRetries) the write of a
\* retryable failure receipt leaves the status, the retryCount and the
\* scheduledTime that a markNotificationFailed call would leave.
C33_ReceiptRetrySameAsMarkFailed ==
  [][\A h \in BagToSet(hooks) :
       (/\ HookStep(h)
        /\ h.pc = "retryWrite"
        /\ queue[h.id].retryCount = h.rc
        /\ queue[h.id].maxRetries = config.maxRetries) =>
         LET marked == FailedUpdate(h.id, h.rc)[h.id] IN
         /\ queue'[h.id].status = marked.status
         /\ queue'[h.id].retryCount = marked.retryCount
         /\ queue'[h.id].scheduledTime = marked.scheduledTime]_vars

\* C34: markNotificationFailed re-queues an item only while the retryCount
\* it read is below that item's own maxRetries field, whatever the queue's
\* configured maxRetries is.
C34_RetriesWithinItemBudget ==
  [][\A c \in BagToSet(failCalls) :
       (/\ CopiesIn(c, failCalls') < CopiesIn(c, failCalls)
        /\ queue'[c.id].status = "pending") =>
         c.rc < queue[c.id].maxRetries]_vars

\* C37: processingCount is never negative and equals the number of
\* processNotification calls in progress, in every reachable state, also
\* after a claim that failed because the item was no longer pending.
C37_CounterMatchesCallsInProgress ==
  /\ processingCount >= 0
  /\ processingCount = BagCardinality(tasks)

\* C39: in every reachable state an item's retryCount equals the number of
\* failure entries in its metadata (metadata.errors plus
\* metadata.retryHistory), also when two markNotificationFailed calls for the
\* same item run concurrently.
C39_RetryCountMatchesAudit ==
  \A i \in Ids : queue[i].retryCount = queue[i].errors + queue[i].retryHistory

\* C40: no item is handed to the external sender by two runs at once: a
\* run of the tick that starts while another run is still sending does not
\* send an item the other run is sending or has sent successfully.
C40_NoItemSentByTwoRuns ==
  [][\A i \in Ids :
       HandedToSender(i) =>
         /\ queue[i].status # "sent"
         /\ \A r \in BagToSet(runs) :
              r.pc \in {"sending", "markSent"} => Head(r.batch) # i]_vars

\* the items of ride r that are pending or processing in queue q
ActiveOfRide(q, r) ==
  {i \in DOMAIN q : q[i].ride = r /\ q[i].status \in {"pending", "processing"}}

\* this step detects a status code that cancels the request
CancelCodeDetected ==
  \/ returned'.op = "rideRequestStatus" /\ returned'.arg \in {109, 409, 599, 699, 799}
  \/ returned'.op = "rideStatus" /\ returned'.arg = 109

\* a code that cancels the request publishes REQUEST_CANCELED for the ride
CancelCodePublishes ==
  CancelCodeDetected =>
    (\E e \in BagToSet(emits') :
       /\ e.pc = "store"
       /\ e.event.eventType = "REQUEST_CANCELED"
       /\ e.event.rideRequestUuid = returned'.val)

\* when the handler enqueues its notice the ride has no pending or
\* processing item, and afterwards the notice is the only one
NoticeAfterCancel ==
  \A e \in BagToSet(emits) :
    (/\ e.event.eventType = "REQUEST_CANCELED"
     /\ e.pc = "handler"
     /\ returned'.op = "addNotification"
     /\ CopiesIn(e, emits') < CopiesIn(e, emits)) =>
      (/\ ActiveOfRide(queue, e.event.rideRequestUuid) = {}
       /\ ActiveOfRide(queue', e.event.rideRequestUuid) = {Len(queue')})

\* when the handler has finished it has added one notice, and no other item
\* of the ride is pending or processing
OnlyNoticeActive ==
  (published' # published /\ published'.event.eventType = "REQUEST_CANCELED") =>
    (/\ ~published'.error
     /\ Cardinality(published'.added) = 1
     /\ ActiveOfRide(queue', published'.event.rideRequestUuid) \subseteq
          published'.added)

C38_EveryItemTerminates ==
  \A i \in 1..MaxItems :
    (i \in Ids) ~> (i \in Ids /\ queue[i].status \in {"sent", "cancelled", "failed"})

\* an item that was claimed and outlived the staleness threshold has failed
\* after its last retry, and another item has been sent
C38_Witness ==
  /\ now > StaleThreshold
  /\ \E i, j \in Ids :
       /\ queue[i].status = "failed"
       /\ queue[i].retryCount = DefaultMaxRetries + 1
       /\ queue[j].status = "sent"

\* this step is the callback of change c resuming after its findOne
Handled(c) == CopiesIn(c, changes') < CopiesIn(c, changes)

\* the publishing calls this step starts
StartedCalls == {e \in BagToSet(emits') : CopiesIn(e, emits') > CopiesIn(e, emits)}

\* C36: the callback of a status change re-reads the ride document before
\* translating: an event it publishes carries the ride and recipient ids of
\* the document as the collection holds it at handling time, and if the
\* document no longer exists then, no event is published and no notification
\* is enqueued.
C36_TranslatesRereadDocument ==
  [][\A c \in BagToSet(changes) :
       Handled(c) =>
         (/\ queue' = queue
          /\ \A e \in StartedCalls :
               /\ c.key \in DOMAIN riderequests
               /\ riderequests[c.key] # NoDocument
               /\ e.event.rideRequestUuid = riderequests[c.key].uuid
               /\ e.event.serviceUserUuid = riderequests[c.key].serviceUserUuid
          /\ (c.key \in DOMAIN riderequests /\ riderequests[c.key] = NoDocument) =>
               (emits' = emits /\ published' = NoPublish))]_vars

\* a publishing call has started for a ride that was handed over after its
\* status update was made, and a change whose document was deleted before
\* its callback resumed has been handled before
C36_Witness ==
  /\ returned.op = "rideStatus"
  /\ \E e \in BagToSet(emits) :
       /\ e.pc = "store"
       /\ e.event.serviceUserUuid = OtherUser
  /\ \E u \in Rides : riderequests[u] = NoDocument

====
